---- MODULE Spec2Model ----
(***************************************************************************)
(* Playback orchestration of narrato-audio-book.                           *)
(*                                                                         *)
(* Queue player: the paragraph player built on synthesizeOffline with      *)
(* playQueueRef / queueIndexRef / abortRef.                                *)
(* Timer player: src/components/AudioPlayer.tsx, built on speakChunk with  *)
(* a 300 ms start timer and an elapsed-seconds interval.                   *)
(* Remote client: synthesizeOnline of src/lib/ttsEngine.ts.                *)
(*                                                                         *)
(* Rates are scaled by 100 (1.25x is 125); time is counted in seconds.     *)
(***************************************************************************)
EXTENDS Integers, Sequences, FiniteSets, TLC

\* ------------------------------------------------------------------ bounds
NumParagraphs == 3   \* paragraphs.length of the book being played
MaxTextLen == 6      \* longest text handed to chunkText
MaxChunkLen == 4     \* largest maxLen handed to chunkText
MaxPending == 1      \* callbacks pending at once: end/error events of cancelled
                     \* utterances that are still undelivered, and start timers
NumChunks == 2       \* chunkText(text).length of the book the timer player narrates
EstimatedSeconds == 1 \* estimatedSeconds of that book
MaxBookLen == 5      \* longest translatedText of a book
MaxBookParagraphs == 2 \* longest list of pre-segmented paragraphs of a book
MaxBookmarks == 2    \* bookmarks added in one behaviour
ResumeSeconds == 6   \* estimatedSeconds of a book long enough to be resumed
MaxSplitLen == 8     \* longest text handed to smartSplitParagraphs

\* The speed buttons offered (a subset of RATE_OPTIONS, x100).
Rates == {100, 150}

PlayStates == {"idle", "loading", "playing", "paused", "ended"}
ParaIdx == 0 .. (NumParagraphs - 1)

VARIABLES
  \* ---- queue player: React state
  state,               \* useState<PlayState>("idle")
  selectedParagraphs,  \* useState<Set<number>>(new Set())
  currentParagraph,    \* useState<number>(-1)
  rate,                \* useState(1)
  \* ---- queue player: refs
  playQueueRef,        \* useRef<number[]>([])
  queueIndexRef,       \* useRef(0)
  abortRef,            \* useRef(false)
  \* ---- queue player: environment
  mounted,             \* the component is mounted
  user,                \* useAuth().user is set (somebody is signed in)
  loadPending,         \* getPlaybackState(...) has not resolved yet
  speechQueue,         \* window.speechSynthesis: utterances queued or sounding
  speechPaused,        \* window.speechSynthesis.paused
  stale,               \* cancelled utterances whose completion is undelivered,
                       \* counted by the rate their playParagraph closure captured
  \* ---- queue player: observation
  cleanRun,            \* handlePlayAll ran and since then no other playback
                       \* command was given and no utterance reported an error
  startedLog,          \* paragraphs started in the clean run, in order
  lastSave,            \* arguments of the last savePlaybackState call, if any
  saveOutcome,         \* how savePlaybackState calls end: "ok", "rejected", "hung"
  stored,              \* the playback_state record of (user, book), if any
  resumed,             \* the last step of the queue player was handleResume
  \* ---- timer player: React state
  tState,              \* useState<PlayState>("idle")
  elapsed,             \* useState(0)
  tRate,               \* useState(1)
  \* ---- timer player: refs
  intervalRef,         \* "null", or the interval it holds is "live" or "cleared"
  sinceStart,          \* seconds from startTimeRef.current to Date.now()
  pausedAtRef,         \* useRef(loadProgress(book.id))
  chunkIndexRef,       \* useRef(0)
  \* ---- timer player: environment
  tMounted,            \* the component is mounted
  capElapsed,          \* elapsed as seen by the memoized handlePlay (its deps
                       \* do not include elapsed)
  leakedInterval,      \* an interval no ref holds any more is still firing
  startTimers,         \* pending setTimeout(..., 300) callbacks: the rate each captured
  tSpeech,             \* window.speechSynthesis: utterances queued or sounding
  tSpeechPaused,       \* window.speechSynthesis.paused
  tStale,              \* cancelled utterances whose end/error is undelivered
  \* ---- timer player: observation
  stopped,             \* handleStop or unmount ran and no play command since
  resumedFrom,         \* the saved progress the Resume banner started this
                       \* playback with, -1 when it was started otherwise
  \* ---- timer player: the book and its stored progress
  estimatedSeconds,    \* estimatedSeconds
  prog,                \* localStorage item prog_<book.id>, in seconds
  \* ---- remote synthesis: synthesizeOnline and the text-to-speech function
  apiKey,              \* Deno.env.get("ELEVENLABS_API_KEY") is set
  rPhase,              \* "idle", "requested", "upstream", "responded", "done"
  reqText,             \* length of the text of the request
  reqSpeed,            \* speed field of the request body: <<>> or <<speed x100>>
  upText,              \* length of the text forwarded upstream, -1: no request
  upSpeed,             \* voice_settings.speed forwarded upstream (x100)
  respStatus,          \* HTTP status of the function's response, 0: none yet
  clientResult,        \* "none", "audio" (ArrayBuffer returned), "thrown" (Error),
                       \* "foreign" (the request is not one of synthesizeOnline)
  \* ---- chunkText: one call
  cText,               \* t, a sequence of characters
  cMaxLen,             \* maxLen
  cSentences,          \* sentences, once the call has run
  cChunks,             \* the chunks returned, each with the sentences it holds
  cDone,               \* the call has returned
  \* ---- the book of the queue player
  bookParagraphs,      \* book.paragraphs: the list, and whether it is defined
  translatedText,      \* book.translatedText, a sequence of characters
  paragraphs,          \* paragraphs, once the component has rendered
  pDone,               \* the component has rendered
  \* ---- smartSplitParagraphs: one call
  sText,               \* text, a sequence of characters
  sParagraphs,         \* the paragraphs returned
  sDone,               \* the call has returned
  \* ---- the bookmarks of the book the timer player narrates
  bookmarks,           \* bookmarks (state of the open player)
  storedBookmarks,     \* localStorage item bm_<book.id>
  nextId,              \* number of the next crypto.randomUUID()
  kept,                \* ids of the bookmarks added and not removed
  voice                \* the recognition handler: active, and the bookmarks and
                       \* elapsed of the render that started it

qvars == <<state, selectedParagraphs, currentParagraph, rate, playQueueRef,
           queueIndexRef, abortRef, mounted, user, loadPending, speechQueue,
           speechPaused, stale, cleanRun, startedLog, lastSave, resumed,
           saveOutcome, stored>>

tvars == <<tState, elapsed, tRate, intervalRef, sinceStart, pausedAtRef,
           chunkIndexRef, tMounted, capElapsed, leakedInterval, startTimers,
           tSpeech, tSpeechPaused, tStale, stopped, resumedFrom,
           estimatedSeconds, prog>>

rvars == <<apiKey, rPhase, reqText, reqSpeed, upText, upSpeed, respStatus,
           clientResult>>

cvars == <<cText, cMaxLen, cSentences, cChunks, cDone>>

pvars == <<bookParagraphs, translatedText, paragraphs, pDone, sText,
           sParagraphs, sDone>>

mvars == <<bookmarks, storedBookmarks, nextId, kept, voice>>

bvars == <<pvars, mvars>>

vars == <<qvars, tvars, rvars, cvars, bvars>>

\* ------------------------------------------------------------ pure helpers

RECURSIVE InsertSorted(_, _)
\* Array.prototype.sort((a, b) => a - b), one element at a time.
InsertSorted(x, s) ==
  IF s = <<>> THEN <<x>>
  ELSE IF x - Head(s) <= 0 THEN <<x>> \o s
  ELSE <<Head(s)>> \o InsertSorted(x, Tail(s))

\* Array.from(selected) played as it is: the sort is left out.
ClickOrder(s) == s

RECURSIVE SortAscending(_)
SortAscending(s) ==
  IF s = <<>> THEN <<>> ELSE InsertSorted(Head(s), SortAscending(Tail(s)))

Range(s) == {s[i] : i \in 1 .. Len(s)}

\* Array.from(set): the members in insertion order, that is in the order the
\* paragraphs were toggled on; every ordering of the members is one the user
\* can produce.
RECURSIVE ArrayFrom(_)
ArrayFrom(S) ==
  IF S = {} THEN {<<>>}
  ELSE UNION {{Append(s, x) : s \in ArrayFrom(S \ {x})} : x \in S}

\* paragraphs.map((_, i) => i)
AllIndices == [i \in 1 .. NumParagraphs |-> i - 1]

StaleCount == LET RECURSIVE Sum(_)
                  Sum(S) == IF S = {} THEN 0
                            ELSE LET r == CHOOSE r \in S : TRUE
                                 IN stale[r] + Sum(S \ {r})
              IN Sum(Rates)

\* window.speechSynthesis.cancel() on engine content eng: every queued or
\* sounding utterance is removed; its end/error event is delivered later (or
\* never), so the promise of its synthesizeOffline call is still unsettled.
CancelledStale(st, eng) ==
  [r \in Rates |->
     st[r] + Cardinality({i \in 1 .. Len(eng) : eng[i].cap = r})]

\* Bound on the undelivered completions a further cancel() may leave behind.
CanCancel == Len(speechQueue) + StaleCount <= MaxPending

\* A synthesizeOffline that speaks without cancelling first.
synthesizeOfflineNoCancel(eng, st, index, cap) ==
  /\ stale' = st
  /\ speechQueue' = Append(eng, [idx |-> index, cap |-> cap])

\* synthesizeOffline(text, lang, rate, voiceIndex): cancel(), then speak(utter).
synthesizeOffline(eng, st, index, cap) ==
  /\ stale' = CancelledStale(st, eng)
  /\ speechQueue' = <<[idx |-> index, cap |-> cap]>>

\* The ways a savePlaybackState call can end: the write is stored, the
\* returned promise rejects, or it never settles.
SaveOutcomes == {"ok", "rejected", "hung"}

\* savePlaybackState(userId, bookId, 0, chunkIndex, speed) of the persistence
\* adapter: fire-and-forget, it returns a promise at once and never throws
\* into its caller; the record is replaced only when the write succeeds.
savePlaybackState(chunkIndex, speed) ==
  stored' = IF saveOutcome = "ok"
            THEN <<[chunk |-> chunkIndex, speed |-> speed]>> ELSE stored

\* saveState(paraIdx): savePlaybackState(user.id, book.id, 0, paraIdx, rate),
\* with the rate of the render that created the callback.
saveState(paraIdx, cap) ==
  IF user
  THEN /\ lastSave' = <<[chunk |-> paraIdx, speed |-> cap]>>
       /\ savePlaybackState(paraIdx, cap)
  ELSE UNCHANGED <<lastSave, stored>>

\* setState / setCurrentParagraph are ignored once the component is unmounted.
SetState(v) == state' = IF mounted THEN v ELSE state
SetCurrentParagraph(v) == currentParagraph' = IF mounted THEN v ELSE currentParagraph

\* A playParagraph that awaits the save before synthesizeOffline: a save that
\* rejects or never settles leaves the paragraph unspoken.
playParagraphAwaitsSave(index, cap, eng, st, started) ==
  IF index < 0 \/ index >= NumParagraphs
  THEN /\ SetState("ended")
       /\ stale' = st
       /\ speechQueue' = eng
       /\ startedLog' = started
       /\ UNCHANGED <<currentParagraph, lastSave, stored>>
  ELSE /\ SetCurrentParagraph(index)
       /\ SetState("playing")
       /\ saveState(index, cap)
       /\ startedLog' = Append(started, index)
       /\ IF user /\ saveOutcome # "ok"
          THEN stale' = st /\ speechQueue' = eng
          ELSE synthesizeOffline(eng, st, index, cap)

\* playParagraph(index) up to its await. cap is the rate captured by the
\* closure, eng the engine content and st the undelivered completions at the
\* call; started is the log the start is appended to.
playParagraph(index, cap, eng, st, started) ==
  IF index < 0 \/ index >= NumParagraphs
  THEN /\ SetState("ended")
       /\ stale' = st
       /\ speechQueue' = eng
       /\ startedLog' = started
       /\ UNCHANGED <<currentParagraph, lastSave, stored>>
  ELSE /\ SetCurrentParagraph(index)
       /\ SetState("playing")
       /\ saveState(index, cap)
       /\ startedLog' = Append(started, index)
       /\ synthesizeOffline(eng, st, index, cap)

\* playParagraph after its await without "if (abortRef.current) return".
AfterEndNoAbortCheck(cap, eng, st) ==
  /\ queueIndexRef' = queueIndexRef + 1
  /\ IF queueIndexRef + 1 < Len(playQueueRef)
     THEN playParagraph(playQueueRef[queueIndexRef + 2], cap, eng, st, startedLog)
     ELSE /\ SetState("ended")
          /\ speechQueue' = eng
          /\ stale' = st
          /\ UNCHANGED <<currentParagraph, startedLog, lastSave, stored>>

\* playParagraph after its await, playing the queue entry of the index before
\* the increment: the paragraph that just ended is played again.
AfterEndReplays(cap, eng, st) ==
  IF abortRef
  THEN /\ speechQueue' = eng
       /\ stale' = st
       /\ UNCHANGED <<state, currentParagraph, queueIndexRef, startedLog, lastSave, stored>>
  ELSE /\ queueIndexRef' = queueIndexRef + 1
       /\ IF queueIndexRef + 1 < Len(playQueueRef)
          THEN playParagraph(playQueueRef[queueIndexRef + 1], cap, eng, st,
                             startedLog)
          ELSE /\ SetState("ended")
               /\ speechQueue' = eng
               /\ stale' = st
               /\ UNCHANGED <<currentParagraph, startedLog, lastSave, stored>>

\* playParagraph after its await resolved (utter.onend): lines 197-204.
AfterEnd(cap, eng, st) ==
  IF abortRef
  THEN /\ speechQueue' = eng
       /\ stale' = st
       /\ UNCHANGED <<state, currentParagraph, queueIndexRef, startedLog, lastSave, stored>>
  ELSE /\ queueIndexRef' = queueIndexRef + 1
       /\ IF queueIndexRef + 1 < Len(playQueueRef) /\ ~abortRef
          THEN playParagraph(playQueueRef[queueIndexRef + 2], cap, eng, st,
                             startedLog)
          ELSE /\ SetState("ended")
               /\ speechQueue' = eng
               /\ stale' = st
               /\ UNCHANGED <<currentParagraph, startedLog, lastSave, stored>>

\* playParagraph after its await rejected (utter.onerror): lines 205-208.
AfterError(eng, st) ==
  /\ SetState("idle")
  /\ speechQueue' = eng
  /\ stale' = st
  /\ UNCHANGED <<currentParagraph, queueIndexRef, startedLog, lastSave, stored>>

\* ------------------------------------------------- queue player: operations

QInit ==
  /\ state = "idle"
  /\ selectedParagraphs = {}
  /\ currentParagraph = -1
  /\ rate = 100
  /\ playQueueRef = <<>>
  /\ queueIndexRef = 0
  /\ abortRef = FALSE
  /\ mounted = TRUE
  /\ user \in BOOLEAN
  /\ loadPending = user
  /\ speechQueue = <<>>
  /\ speechPaused = FALSE
  /\ stale = [r \in Rates |-> 0]
  /\ startedLog = <<>>
  /\ lastSave = <<>>
  /\ saveOutcome = "ok"
  /\ stored = <<>>
  /\ cleanRun = FALSE
  /\ resumed = FALSE

toggleParagraph(index) ==
  /\ mounted
  /\ selectedParagraphs' =
       IF index \in selectedParagraphs
       THEN selectedParagraphs \ {index}
       ELSE selectedParagraphs \cup {index}
  /\ UNCHANGED <<state, currentParagraph, rate, playQueueRef, queueIndexRef,
                 abortRef, mounted, user, loadPending, speechQueue, speechPaused,
                 stale, startedLog, lastSave, stored>>
  /\ cleanRun' = FALSE
  /\ resumed' = FALSE
  /\ UNCHANGED saveOutcome
  /\ UNCHANGED <<tvars, rvars, cvars, bvars>>

\* "Clear selection": setSelectedParagraphs(new Set())
clearSelection ==
  /\ mounted
  /\ selectedParagraphs # {}
  /\ selectedParagraphs' = {}
  /\ UNCHANGED <<state, currentParagraph, rate, playQueueRef, queueIndexRef,
                 abortRef, mounted, user, loadPending, speechQueue, speechPaused,
                 stale, startedLog, lastSave, stored>>
  /\ cleanRun' = FALSE
  /\ resumed' = FALSE
  /\ UNCHANGED saveOutcome
  /\ UNCHANGED <<tvars, rvars, cvars, bvars>>

\* A speed button: onClick={() => setRate(r)}
setRate(r) ==
  /\ mounted
  /\ rate' = r
  /\ UNCHANGED <<state, selectedParagraphs, currentParagraph, playQueueRef,
                 queueIndexRef, abortRef, mounted, user, loadPending, speechQueue,
                 speechPaused, stale, startedLog, lastSave, stored, cleanRun>>
  /\ resumed' = FALSE
  /\ UNCHANGED saveOutcome
  /\ UNCHANGED <<tvars, rvars, cvars, bvars>>

\* A read handler that takes the stored chunk index without the range check.
loadResolvedUnchecked(found, chunkIndex, speed) ==
  /\ loadPending
  /\ loadPending' = FALSE
  /\ IF found /\ mounted
     THEN /\ rate' = speed
          /\ currentParagraph' = chunkIndex
     ELSE UNCHANGED <<rate, currentParagraph>>
  /\ cleanRun' = cleanRun
  /\ UNCHANGED <<state, selectedParagraphs, playQueueRef, queueIndexRef,
                 abortRef, mounted, user, speechQueue, speechPaused, stale,
                 startedLog, lastSave, stored>>
  /\ resumed' = FALSE
  /\ UNCHANGED saveOutcome
  /\ UNCHANGED <<tvars, rvars, cvars, bvars>>

\* getPlaybackState(user.id, book.id).then(ps => ...): ps is null or a record
loadResolved(found, chunkIndex, speed) ==
  /\ loadPending
  /\ loadPending' = FALSE
  /\ IF found /\ mounted
     THEN /\ rate' = speed
          /\ currentParagraph' =
               IF chunkIndex >= 0 /\ chunkIndex < NumParagraphs
               THEN chunkIndex ELSE currentParagraph
     ELSE UNCHANGED <<rate, currentParagraph>>
  /\ cleanRun' = cleanRun
  /\ UNCHANGED <<state, selectedParagraphs, playQueueRef, queueIndexRef,
                 abortRef, mounted, user, speechQueue, speechPaused, stale,
                 startedLog, lastSave, stored>>
  /\ resumed' = FALSE
  /\ UNCHANGED saveOutcome
  /\ UNCHANGED <<tvars, rvars, cvars, bvars>>

\* clicked is Array.from(selectedParagraphs), the selection in click order
handlePlayAll(clicked) ==
  /\ mounted
  /\ state \notin {"playing", "paused"}
  /\ CanCancel
  /\ abortRef' = FALSE
  /\ LET queue == IF Cardinality(selectedParagraphs) > 0
                  THEN SortAscending(clicked)
                  ELSE AllIndices
     IN /\ playQueueRef' = queue
        /\ queueIndexRef' = 0
        /\ playParagraph(queue[1], rate, speechQueue, stale, <<>>)
  /\ cleanRun' = TRUE
  /\ UNCHANGED <<selectedParagraphs, rate, mounted, user, loadPending, speechPaused>>
  /\ resumed' = FALSE
  /\ UNCHANGED saveOutcome
  /\ UNCHANGED <<tvars, rvars, cvars, bvars>>

\* A handlePlaySingle that leaves a queue that is already set in place.
handlePlaySingleKeepsQueue(index) ==
  /\ mounted
  /\ CanCancel
  /\ abortRef' = FALSE
  /\ playQueueRef' = IF playQueueRef = <<>> THEN <<index>> ELSE playQueueRef
  /\ queueIndexRef' = 0
  /\ playParagraph(index, rate, speechQueue, stale, <<>>)
  /\ cleanRun' = FALSE
  /\ UNCHANGED <<selectedParagraphs, rate, mounted, user, loadPending, speechPaused>>
  /\ resumed' = FALSE
  /\ UNCHANGED saveOutcome
  /\ UNCHANGED <<tvars, rvars, cvars, bvars>>

handlePlaySingle(index) ==
  /\ mounted
  /\ CanCancel
  /\ abortRef' = FALSE
  /\ playQueueRef' = <<index>>
  /\ queueIndexRef' = 0
  /\ playParagraph(index, rate, speechQueue, stale, <<>>)
  /\ cleanRun' = FALSE
  /\ UNCHANGED <<selectedParagraphs, rate, mounted, user, loadPending, speechPaused>>
  /\ resumed' = FALSE
  /\ UNCHANGED saveOutcome
  /\ UNCHANGED <<tvars, rvars, cvars, bvars>>

handlePause ==
  /\ mounted
  /\ state = "playing"
  /\ speechPaused' = TRUE
  /\ state' = "paused"
  /\ cleanRun' = FALSE
  /\ UNCHANGED <<selectedParagraphs, currentParagraph, rate, playQueueRef,
                 queueIndexRef, abortRef, mounted, user, loadPending, speechQueue,
                 stale, startedLog, lastSave, stored>>
  /\ resumed' = FALSE
  /\ UNCHANGED saveOutcome
  /\ UNCHANGED <<tvars, rvars, cvars, bvars>>

\* A resume that synthesizes again from the head of the queue.
handleResumeRestarts ==
  /\ mounted
  /\ state = "paused"
  /\ CanCancel
  /\ speechPaused' = FALSE
  /\ queueIndexRef' = 0
  /\ playParagraph(playQueueRef[1], rate, speechQueue, stale, startedLog)
  /\ cleanRun' = FALSE
  /\ UNCHANGED <<selectedParagraphs, rate, playQueueRef, abortRef, mounted, user,
                 loadPending>>
  /\ resumed' = TRUE
  /\ UNCHANGED saveOutcome
  /\ UNCHANGED <<tvars, rvars, cvars, bvars>>

handleResume ==
  /\ mounted
  /\ state = "paused"
  /\ speechPaused' = FALSE
  /\ state' = "playing"
  /\ cleanRun' = FALSE
  /\ UNCHANGED <<selectedParagraphs, currentParagraph, rate, playQueueRef,
                 queueIndexRef, abortRef, mounted, user, loadPending, speechQueue,
                 stale, startedLog, lastSave, stored>>
  /\ resumed' = TRUE
  /\ UNCHANGED saveOutcome
  /\ UNCHANGED <<tvars, rvars, cvars, bvars>>

\* A stop that leaves setCurrentParagraph(-1) out.
handleStopKeepsParagraph ==
  /\ mounted
  /\ CanCancel
  /\ abortRef' = TRUE
  /\ stale' = CancelledStale(stale, speechQueue)
  /\ speechQueue' = <<>>
  /\ state' = "idle"
  /\ cleanRun' = FALSE
  /\ UNCHANGED <<selectedParagraphs, currentParagraph, rate, playQueueRef,
                 queueIndexRef, mounted, user, loadPending, speechPaused,
                 startedLog, lastSave, stored>>
  /\ resumed' = FALSE
  /\ UNCHANGED saveOutcome
  /\ UNCHANGED <<tvars, rvars, cvars, bvars>>

\* The handler has no guard of its own (its button is disabled in idle).
handleStop ==
  /\ mounted
  /\ CanCancel
  /\ abortRef' = TRUE
  /\ stale' = CancelledStale(stale, speechQueue)
  /\ speechQueue' = <<>>
  /\ state' = "idle"
  /\ currentParagraph' = -1
  /\ cleanRun' = FALSE
  /\ UNCHANGED <<selectedParagraphs, rate, playQueueRef, queueIndexRef, mounted,
                 user, loadPending, speechPaused, startedLog, lastSave, stored>>
  /\ resumed' = FALSE
  /\ UNCHANGED saveOutcome
  /\ UNCHANGED <<tvars, rvars, cvars, bvars>>

\* A repeat that replays the paragraph and leaves the queue as it was.
handleRepeatKeepsQueue ==
  /\ mounted
  /\ CanCancel
  /\ currentParagraph >= 0
  /\ abortRef' = FALSE
  /\ UNCHANGED <<playQueueRef, queueIndexRef>>
  /\ playParagraph(currentParagraph, rate, speechQueue, stale, <<>>)
  /\ cleanRun' = FALSE
  /\ UNCHANGED <<selectedParagraphs, rate, mounted, user, loadPending, speechPaused>>
  /\ resumed' = FALSE
  /\ UNCHANGED saveOutcome
  /\ UNCHANGED <<tvars, rvars, cvars, bvars>>

\* A handleRepeat that moves the queue pointer on.
handleRepeatAdvances ==
  /\ mounted
  /\ CanCancel
  /\ currentParagraph >= 0
  /\ abortRef' = FALSE
  /\ playQueueRef' = <<currentParagraph>>
  /\ queueIndexRef' = queueIndexRef + 1
  /\ playParagraph(currentParagraph, rate, speechQueue, stale, <<>>)
  /\ cleanRun' = FALSE
  /\ UNCHANGED <<selectedParagraphs, rate, mounted, user, loadPending, speechPaused>>
  /\ resumed' = FALSE
  /\ UNCHANGED saveOutcome
  /\ UNCHANGED <<tvars, rvars, cvars, bvars>>

handleRepeat ==
  /\ mounted
  /\ CanCancel
  /\ currentParagraph >= 0
  /\ abortRef' = FALSE
  /\ playQueueRef' = <<currentParagraph>>
  /\ queueIndexRef' = 0
  /\ playParagraph(currentParagraph, rate, speechQueue, stale, <<>>)
  /\ cleanRun' = FALSE
  /\ UNCHANGED <<selectedParagraphs, rate, mounted, user, loadPending, speechPaused>>
  /\ resumed' = FALSE
  /\ UNCHANGED saveOutcome
  /\ UNCHANGED <<tvars, rvars, cvars, bvars>>

\* A cleanup that only calls stopTTS().
unmountKeepsAbort ==
  /\ mounted
  /\ CanCancel
  /\ mounted' = FALSE
  /\ stale' = CancelledStale(stale, speechQueue)
  /\ speechQueue' = <<>>
  /\ cleanRun' = FALSE
  /\ UNCHANGED <<state, selectedParagraphs, currentParagraph, rate, playQueueRef,
                 queueIndexRef, abortRef, user, loadPending, speechPaused,
                 startedLog, lastSave, stored>>
  /\ resumed' = FALSE
  /\ UNCHANGED saveOutcome
  /\ UNCHANGED <<tvars, rvars, cvars, bvars>>

\* useEffect(() => () => { abortRef.current = true; stopTTS(); }, [])
unmount ==
  /\ mounted
  /\ CanCancel
  /\ mounted' = FALSE
  /\ abortRef' = TRUE
  /\ stale' = CancelledStale(stale, speechQueue)
  /\ speechQueue' = <<>>
  /\ cleanRun' = FALSE
  /\ UNCHANGED <<state, selectedParagraphs, currentParagraph, rate, playQueueRef,
                 queueIndexRef, user, loadPending, speechPaused, startedLog,
                 lastSave, stored>>
  /\ resumed' = FALSE
  /\ UNCHANGED saveOutcome
  /\ UNCHANGED <<tvars, rvars, cvars, bvars>>

\* The sounding utterance finishes: utter.onend resolves the promise.
utterEnd ==
  /\ speechQueue # <<>>
  /\ ~speechPaused
  /\ AfterEnd(Head(speechQueue).cap, Tail(speechQueue), stale)
  /\ UNCHANGED <<selectedParagraphs, rate, playQueueRef, abortRef, mounted, user,
                 loadPending, speechPaused, cleanRun>>
  /\ resumed' = FALSE
  /\ UNCHANGED saveOutcome
  /\ UNCHANGED <<tvars, rvars, cvars, bvars>>

\* The sounding utterance fails: utter.onerror rejects the promise.
utterError ==
  /\ speechQueue # <<>>
  /\ ~speechPaused
  /\ AfterError(Tail(speechQueue), stale)
  /\ cleanRun' = FALSE
  /\ UNCHANGED <<selectedParagraphs, rate, playQueueRef, abortRef, mounted, user,
                 loadPending, speechPaused>>
  /\ resumed' = FALSE
  /\ UNCHANGED saveOutcome
  /\ UNCHANGED <<tvars, rvars, cvars, bvars>>

\* The end event of an utterance removed by cancel() is delivered: the
\* playParagraph call that awaited it continues.
staleEnd(cap) ==
  /\ stale[cap] > 0
  /\ AfterEnd(cap, speechQueue, [stale EXCEPT ![cap] = @ - 1])
  /\ UNCHANGED <<selectedParagraphs, rate, playQueueRef, abortRef, mounted, user,
                 loadPending, speechPaused, cleanRun>>
  /\ resumed' = FALSE
  /\ UNCHANGED saveOutcome
  /\ UNCHANGED <<tvars, rvars, cvars, bvars>>

\* The error event of an utterance removed by cancel() is delivered.
staleError(cap) ==
  /\ stale[cap] > 0
  /\ AfterError(speechQueue, [stale EXCEPT ![cap] = @ - 1])
  /\ cleanRun' = FALSE
  /\ UNCHANGED <<selectedParagraphs, rate, playQueueRef, abortRef, mounted, user,
                 loadPending, speechPaused>>
  /\ resumed' = FALSE
  /\ UNCHANGED saveOutcome
  /\ UNCHANGED <<tvars, rvars, cvars, bvars>>

\* Persisted records a read may return: any chunk index, valid or not.
LoadChunks == -1 .. NumParagraphs

QNext ==
  \/ \E i \in ParaIdx : toggleParagraph(i)
  \/ clearSelection
  \/ \E r \in Rates : setRate(r)
  \/ loadResolved(FALSE, -1, 100)
  \/ \E k \in LoadChunks, r \in Rates : loadResolved(TRUE, k, r)
  \/ \E clicked \in ArrayFrom(selectedParagraphs) : handlePlayAll(clicked)
  \/ \E i \in ParaIdx : handlePlaySingle(i)
  \/ handlePause
  \/ handleResume
  \/ handleStop
  \/ handleRepeat
  \/ unmount
  \/ utterEnd
  \/ utterError
  \/ \E r \in Rates : staleEnd(r)
  \/ \E r \in Rates : staleError(r)

\* ------------------------------------------------- queue player: properties

IsStrictlyAscending(s) == \A i \in 1 .. (Len(s) - 1) : s[i] < s[i + 1]

\* The end or error event of a cancelled utterance is delivered.
StaleDelivery == \E r \in Rates : staleEnd(r) \/ staleError(r)

\* A step of handlePlayAll; the first three conjuncts follow from the fourth.
PlayAllStep ==
  /\ state \notin {"playing", "paused"}
  /\ cleanRun'
  /\ ~abortRef'
  /\ \E clicked \in ArrayFrom(selectedParagraphs) : handlePlayAll(clicked)

\* C1: the completion (end or error) of an utterance that was superseded or
\* stopped never increments queueIndexRef, never starts a paragraph and never
\* changes the play state, whatever command followed the cancellation.
C1_StaleCompletionNeverAdvances ==
  [][StaleDelivery =>
       /\ queueIndexRef' = queueIndexRef
       /\ state' = state
       /\ startedLog' = startedLog
       /\ speechQueue' = speechQueue]_vars

\* C2: after handleStop with no play command since (abortRef still set, state
\* idle, no current paragraph), the delivery of the old utterance's end or
\* error leaves the state idle and currentParagraph -1, does not increment
\* queueIndexRef and starts no paragraph.
C2_StaleAfterStopIsDiscarded ==
  [][(StaleDelivery /\ mounted /\ abortRef /\ state = "idle"
        /\ currentParagraph = -1) =>
       /\ state' = "idle"
       /\ currentParagraph' = -1
       /\ queueIndexRef' = queueIndexRef
       /\ startedLog' = startedLog
       /\ speechQueue' = speechQueue
       /\ lastSave' = lastSave]_vars

\* Play All of the whole book, paused on its first paragraph, stopped, and the
\* completion of the cancelled utterance delivered: a paused engine lets no
\* utterance finish, so the utterance can only have left through cancel().
C2_StoppedAndStaleDelivered ==
  /\ mounted
  /\ abortRef
  /\ state = "idle"
  /\ currentParagraph = -1
  /\ speechPaused
  /\ playQueueRef = AllIndices
  /\ queueIndexRef = 0
  /\ startedLog = <<0>>
  /\ speechQueue = <<>>
  /\ StaleCount = 0

\* C3: handlePlayAll sets the queue to the selected indices in strictly
\* ascending order (to 0..n-1 when nothing is selected), whatever the order of
\* the clicks, with no duplicate and no selected index left out; it resets
\* queueIndexRef to 0 and starts the first paragraph of the queue.
C3_PlayAllQueueIsSortedSelection ==
  [][PlayAllStep =>
       /\ IsStrictlyAscending(playQueueRef')
       /\ Range(playQueueRef') = IF selectedParagraphs # {}
                                 THEN selectedParagraphs ELSE ParaIdx
       /\ Len(playQueueRef') = Cardinality(Range(playQueueRef'))
       /\ queueIndexRef' = 0
       /\ startedLog' = <<playQueueRef'[1]>>
       /\ Len(speechQueue') = 1
       /\ speechQueue'[1].idx = playQueueRef'[1]
       /\ \A i \in Range(playQueueRef') : playQueueRef'[1] <= i]_vars

\* Play All has just run over the selection {0, 2}.
C3_PlayAllOverSelectionStarted ==
  /\ cleanRun
  /\ selectedParagraphs = {0, NumParagraphs - 1}
  /\ playQueueRef = <<0, NumParagraphs - 1>>
  /\ queueIndexRef = 0
  /\ startedLog = <<0>>
  /\ speechQueue # <<>>
  /\ Head(speechQueue).idx = 0

\* C4: in a run of handlePlayAll over a non-empty selection S with no further
\* command and no utterance error, the paragraphs started are members of S in
\* strictly increasing order, each once, following the queue; when the state
\* is ended all of S was started; nothing outside S is started or saved.
C4_PlayAllPlaysExactlySelection ==
  (cleanRun /\ selectedParagraphs # {}) =>
    /\ Range(startedLog) \subseteq selectedParagraphs
    /\ IsStrictlyAscending(startedLog)
    /\ Len(startedLog) <= Len(playQueueRef)
    /\ \A i \in 1 .. Len(startedLog) : startedLog[i] = playQueueRef[i]
    /\ (state = "ended" => Range(startedLog) = selectedParagraphs)
    /\ \A i \in 1 .. Len(speechQueue) : speechQueue[i].idx \in selectedParagraphs
    /\ (user => /\ lastSave # <<>>
                /\ lastSave[1].chunk \in selectedParagraphs)

\* The run over {0, 2} is over: both were started, paragraph 1 never was.
C4_SelectionPlayedToEnd ==
  /\ cleanRun
  /\ user
  /\ selectedParagraphs = {0, NumParagraphs - 1}
  /\ state = "ended"
  /\ startedLog = <<0, NumParagraphs - 1>>
  /\ lastSave = <<[chunk |-> NumParagraphs - 1, speed |-> rate]>>
  /\ speechQueue = <<>>
  /\ StaleCount = 0

\* C5: handleStop, in whatever state it is invoked, leaves state idle and
\* currentParagraph -1 with abortRef set and the engine emptied; invoked in
\* idle with no current paragraph it changes nothing that can be observed.
C5_StopAlwaysIdle ==
  [][handleStop =>
       /\ state' = "idle"
       /\ currentParagraph' = -1
       /\ abortRef'
       /\ speechQueue' = <<>>
       /\ ((state = "idle" /\ currentParagraph = -1) =>
             UNCHANGED <<state, selectedParagraphs, currentParagraph, rate,
                         playQueueRef, queueIndexRef, speechQueue, speechPaused,
                         stale, startedLog, lastSave>>)]_vars

\* handleStop ran while the second paragraph of a queue was paused: its
\* utterance is cancelled and the completion is still to come.
C5_StoppedFromPaused ==
  /\ mounted
  /\ state = "idle"
  /\ currentParagraph = -1
  /\ abortRef
  /\ speechPaused
  /\ queueIndexRef = 1
  /\ speechQueue = <<>>
  /\ StaleCount > 0

\* C7: handlePause and the handleResume that follows leave currentParagraph,
\* playQueueRef and queueIndexRef alone and hand nothing to the engine; pause
\* suspends the engine, resume lets it continue and sets the state to playing.
C7_PauseResumeKeepsPosition ==
  [][(handlePause \/ handleResume) =>
       /\ UNCHANGED <<currentParagraph, playQueueRef, queueIndexRef, speechQueue,
                      stale, startedLog, lastSave>>
       /\ (handlePause => state' = "paused" /\ speechPaused')
       /\ (handleResume => state' = "playing" /\ ~speechPaused')]_vars

\* handleResume has just run on the second paragraph of a queue.
C7_ResumedMidQueue ==
  /\ resumed
  /\ state = "playing"
  /\ ~speechPaused
  /\ queueIndexRef = 1
  /\ currentParagraph = playQueueRef[2]
  /\ speechQueue # <<>>
  /\ Head(speechQueue).idx = currentParagraph

\* C10: a change of rate while playing re-synthesizes the sounding paragraph
\* at the new rate, and every paragraph the queue starts afterwards is spoken
\* at the rate in force when it starts.
C10_RateChangeReachesPlayback ==
  [][/\ ((\E r \in Rates : setRate(r)) /\ state = "playing"
           /\ speechQueue # <<>> /\ rate' # rate =>
             speechQueue' # <<>> /\ Head(speechQueue').cap = rate')
     /\ ((utterEnd /\ Len(startedLog') > Len(startedLog)) =>
             Head(speechQueue').cap = rate)]_vars


\* C11: unmounting sets abortRef and empties the speech engine; from then on
\* no paragraph is started, nothing is handed to the engine and no checkpoint
\* is written, whatever completion or load result is delivered afterwards.
C11_NothingAfterUnmount ==
  [][/\ (unmount => abortRef' /\ speechQueue' = <<>>)
     /\ (~mounted =>
           /\ abortRef'
           /\ speechQueue' = <<>>
           /\ startedLog' = startedLog
           /\ lastSave' = lastSave
           /\ queueIndexRef' = queueIndexRef
           /\ UNCHANGED <<state, currentParagraph, rate>>)]_vars

\* The player was unmounted while paused, and the completion of the utterance
\* its cleanup cancelled has been delivered since.
C11_UnmountedAndStaleDelivered ==
  /\ ~mounted
  /\ abortRef
  /\ state = "paused"
  /\ speechPaused
  /\ startedLog # <<>>
  /\ speechQueue = <<>>
  /\ StaleCount = 0
  /\ ~loadPending

\* The queue moves on: queueIndexRef is incremented and the next queued
\* paragraph is started.
QueueAdvances ==
  /\ queueIndexRef' = queueIndexRef + 1
  /\ Len(startedLog') = Len(startedLog) + 1

\* C17: the next queued paragraph is started only by the step that processes
\* the completion of the paragraph that is sounding, and the engine never
\* holds more than one utterance of the session.
C17_NextStartsAfterCurrentCompletes ==
  [][/\ Len(speechQueue') <= 1
     /\ (QueueAdvances => utterEnd)]_vars

\* A step that calls playParagraph with a paragraph of the book: a play
\* command, or a completion that advances the queue. The first two conjuncts
\* follow from the third.
StartsParagraph ==
  /\ ~abortRef'
  /\ startedLog' # <<>>
  /\ \/ PlayAllStep
     \/ handlePlaySingle(Head(startedLog'))
     \/ handleRepeat
     \/ QueueAdvances /\ (utterEnd \/ \E r \in Rates : staleEnd(r))

\* C18: when every save of the session fails (the promise rejects or never
\* settles), each step that starts a paragraph still leaves the player
\* playing with that paragraph handed to the engine in the same step, and the
\* completion of a paragraph with a successor in the queue still advances.
C18_FailedSaveNeverBlocksPlayback ==
  [][/\ (StartsParagraph =>
           /\ state' = "playing"
           /\ Len(speechQueue') = 1
           /\ speechQueue'[1].idx = currentParagraph'
           /\ lastSave' # <<>>
           /\ stored' = <<>>)
     /\ (utterEnd /\ ~abortRef /\ queueIndexRef + 1 < Len(playQueueRef)
           => QueueAdvances /\ state' = "playing")]_vars

\* A whole selection was played to its end although every save failed.
C18_QueuePlayedWithFailingSaves ==
  /\ saveOutcome \in {"rejected", "hung"}
  /\ user /\ cleanRun /\ state = "ended"
  /\ Len(playQueueRef) = NumParagraphs
  /\ startedLog = playQueueRef
  /\ lastSave = <<[chunk |-> NumParagraphs - 1, speed |-> rate]>>
  /\ stored = <<>>

\* C19: each step that starts paragraph i for a signed-in user issues a save
\* that carries chunk index i and the rate selected in the session at that
\* moment.
C19_SaveCarriesSelectedRate ==
  [][user /\ StartsParagraph =>
       lastSave' = <<[chunk |-> startedLog'[Len(startedLog')], speed |-> rate']>>]_vars

\* C20: when the read of the saved state resolves with chunk index k and
\* speed s while the open player is idle, currentParagraph becomes k if k is
\* a paragraph of the book and keeps its value otherwise, the rate becomes s,
\* the state stays idle and nothing is handed to the engine or started.
C20_LoadSeedsResumePointOnly ==
  [][loadPending /\ ~loadPending' /\ mounted /\ state = "idle" =>
       \A k \in LoadChunks, s \in Rates :
         loadResolved(TRUE, k, s) =>
           /\ currentParagraph' = IF 0 <= k /\ k < NumParagraphs
                                  THEN k ELSE currentParagraph
           /\ rate' = s
           /\ state' = "idle"
           /\ UNCHANGED <<speechQueue, stale, startedLog, lastSave,
                          playQueueRef, queueIndexRef>>]_vars

\* The read has resolved with the last paragraph and the faster rate in a
\* session that never played: the player is seeded and still idle.
C20_SeededAndIdle ==
  /\ user /\ mounted /\ ~loadPending
  /\ state = "idle"
  /\ currentParagraph = NumParagraphs - 1
  /\ rate = 150
  /\ speechQueue = <<>> /\ StaleCount = 0
  /\ startedLog = <<>> /\ lastSave = <<>> /\ playQueueRef = <<>>

\* A play command of the user.
PlayCommand ==
  \/ PlayAllStep
  \/ \E i \in ParaIdx : handlePlaySingle(i)
  \/ handleRepeat

\* The paragraph being played failed and no play command was given since: the
\* player is idle at the queue position of the failed paragraph with an empty
\* engine. (Stop leaves abortRef set; a queue that ran out leaves
\* queueIndexRef at its length.)
ErroredIdle ==
  /\ mounted /\ state = "idle" /\ ~abortRef
  /\ speechQueue = <<>>
  /\ queueIndexRef < Len(playQueueRef)

\* C21: an error of the paragraph being played makes the state idle without
\* advancing queueIndexRef or starting a paragraph, and from then on nothing
\* but a play command advances the queue or hands a paragraph to the engine.
C21_ErrorStopsQueueUntilPlayCommand ==
  [][/\ (utterError /\ mounted =>
           /\ state' = "idle"
           /\ queueIndexRef' = queueIndexRef
           /\ speechQueue' = <<>>
           /\ startedLog' = startedLog)
     /\ ((ErroredIdle /\ (\/ queueIndexRef' # queueIndexRef
                          \/ speechQueue' # <<>>
                          \/ startedLog' # startedLog))
           => PlayCommand)]_vars

\* C23: handlePlaySingle(i) sets the queue to <<i>> and queueIndexRef to 0 and
\* hands paragraph i to the engine, whatever the selection and the queue in
\* progress; while the queue holds one paragraph nothing but a play command
\* starts a paragraph, and the completion of the paragraph ends the session.
C23_PlaySinglePlaysInIsolation ==
  [][/\ ((startedLog' # <<>> /\ ~abortRef' /\ ~cleanRun'
            /\ handlePlaySingle(Head(startedLog'))) =>
           /\ playQueueRef' = startedLog'
           /\ Len(startedLog') = 1
           /\ queueIndexRef' = 0
           /\ Len(speechQueue') = 1
           /\ speechQueue'[1].idx = Head(startedLog'))
     /\ (Len(playQueueRef) = 1 /\ startedLog' # startedLog => PlayCommand)
     /\ (Len(playQueueRef) = 1 /\ mounted /\ utterEnd =>
           /\ state' = "ended"
           /\ speechQueue' = <<>>
           /\ startedLog' = startedLog)]_vars

\* Paragraph 2 was played alone over a selection of two other paragraphs and
\* over a sounding utterance, and its own completion ended the session: the
\* completion of the utterance it cancelled is still undelivered.
C23_SinglePlayedOverQueue ==
  /\ mounted /\ state = "ended"
  /\ selectedParagraphs = {0, 1}
  /\ playQueueRef = <<2>> /\ queueIndexRef = 1
  /\ startedLog = <<2>>
  /\ speechQueue = <<>> /\ StaleCount = 1

\* C24: a handleRepeat step is taken only with currentParagraph >= 0 (with -1
\* the handler does nothing); it hands paragraph currentParagraph to the
\* engine as the only utterance, leaves currentParagraph in place, sets
\* playing and does not move queueIndexRef forward.
C24_RepeatReplaysCurrentParagraph ==
  [][(~abortRef' /\ ~cleanRun' /\ handleRepeat) =>
       /\ currentParagraph >= 0
       /\ speechQueue' = <<[idx |-> currentParagraph, cap |-> rate]>>
       /\ startedLog' = <<currentParagraph>>
       /\ currentParagraph' = currentParagraph
       /\ state' = "playing"
       /\ queueIndexRef' <= queueIndexRef]_vars

\* The second paragraph of a Play all over the whole book was repeated while
\* it was sounding: it is in the engine again, the first utterance of it is
\* cancelled and undelivered, and the pointer is back at 0.
C24_RepeatedMidQueue ==
  /\ mounted /\ state = "playing"
  /\ selectedParagraphs = {}
  /\ currentParagraph = 1
  /\ playQueueRef = <<1>> /\ queueIndexRef = 0
  /\ startedLog = <<1>>
  /\ Len(speechQueue) = 1 /\ speechQueue[1].idx = 1
  /\ StaleCount = 1

\* C30: at most one utterance of the session is queued or sounding in the
\* speech engine, because every synthesizeOffline call cancels before it
\* speaks.
C30_AtMostOneUtterance == Len(speechQueue) <= 1

\* A paragraph was started over a sounding one: the new utterance is alone in
\* the engine and the completion of the cancelled one is still undelivered.
C30_SupersededUtterance ==
  /\ mounted /\ state = "playing"
  /\ Len(speechQueue) = 1
  /\ speechQueue[1].idx = currentParagraph
  /\ startedLog = <<currentParagraph>>
  /\ StaleCount = 1

\* C35: a saved-state read that resolves while a session started by a play
\* command is playing or paused changes neither currentParagraph nor the rate;
\* currentParagraph keeps identifying the paragraph being played.
C35_LateLoadLeavesSessionAlone ==
  [][(loadPending /\ ~loadPending' /\ mounted /\ state \in {"playing", "paused"}) =>
       /\ currentParagraph' = currentParagraph
       /\ rate' = rate
       /\ (speechQueue' # <<>> =>
             currentParagraph' = speechQueue'[Len(speechQueue')].idx)]_vars

\* C36: while the play state is playing or paused, currentParagraph is a
\* valid paragraph index and is the queue entry at queueIndexRef, the
\* paragraph whose utterance is pending in the speech engine.
C36_StateAndPositionAgree ==
  (mounted /\ state \in {"playing", "paused"}) =>
    /\ currentParagraph \in ParaIdx
    /\ queueIndexRef < Len(playQueueRef)
    /\ playQueueRef[queueIndexRef + 1] = currentParagraph
    /\ speechQueue # <<>>
    /\ speechQueue[Len(speechQueue)].idx = currentParagraph

\* C38: handleRepeat replaces the play queue by [currentParagraph] and sets
\* queueIndexRef to 0; while the queue is that single paragraph no other
\* paragraph is started, and when the paragraph completes the state becomes
\* ended with nothing left in the engine.
C38_RepeatLeavesSingletonQueue ==
  [][/\ ((/\ ~abortRef' /\ ~cleanRun' /\ ~resumed'
          /\ Len(startedLog') = 1
          /\ handleRepeat) =>
           /\ playQueueRef' = <<currentParagraph>>
           /\ queueIndexRef' = 0)
     /\ (Len(playQueueRef') = 1 =>
           \A i \in 1 .. Len(startedLog') : startedLog'[i] = playQueueRef'[1])
     /\ ((/\ mounted /\ Len(playQueueRef) = 1
          /\ speechQueue # <<>> /\ ~speechPaused
          /\ ~resumed' /\ playQueueRef' = playQueueRef /\ cleanRun' = cleanRun
          /\ utterEnd) =>
           /\ state' = "ended"
           /\ speechQueue' = <<>>
           /\ startedLog' = startedLog)]_vars

\* The second paragraph of a Play all over the whole book was repeated and
\* then completed: the state is ended with the third paragraph never started.
C38_RepeatedParagraphCompleted ==
  /\ mounted /\ state = "ended"
  /\ selectedParagraphs = {}
  /\ currentParagraph = 1
  /\ playQueueRef = <<1>> /\ queueIndexRef = 1
  /\ startedLog = <<1>>
  /\ speechQueue = <<>>
  /\ StaleCount = 1

\* --------------------------------------------------- timer player: helpers
\* (src/components/AudioPlayer.tsx)

\* The recognition handler is not installed.
VoiceOff == [active |-> FALSE, bookmarks |-> <<>>, elapsed |-> 0]

\* No bookmark was ever set for the book; voice commands are off.
MIdle ==
  /\ bookmarks = <<>>
  /\ storedBookmarks = <<>>
  /\ nextId = 1
  /\ kept = {}
  /\ voice = VoiceOff

\* The timer player at rest: the state of a player that is not in use.
TIdle ==
  /\ tState = "idle"
  /\ elapsed = 0
  /\ tRate = 100
  /\ intervalRef = "null"
  /\ sinceStart = 0
  /\ pausedAtRef = 0
  /\ chunkIndexRef = 0
  /\ tMounted = TRUE
  /\ capElapsed = 0
  /\ leakedInterval = FALSE
  /\ startTimers = <<>>
  /\ tSpeech = <<>>
  /\ tSpeechPaused = FALSE
  /\ tStale = <<>>
  /\ stopped = FALSE
  /\ resumedFrom = -1
  /\ estimatedSeconds = EstimatedSeconds
  /\ prog = 0

\* The queue player at rest.
QIdle ==
  /\ QInit
  /\ user = TRUE

Min(a, b) == IF a <= b THEN a ELSE b

\* hasResumePoint = progressSaved > 5 && state === "idle"
ResumeThreshold == 5

TSetState(v) == IF tMounted THEN v ELSE tState

\* handlePlay is re-created only when one of its deps changes; the elapsed its
\* stopTimer reads is the one of that render.
Rerender(depChanged) ==
  capElapsed' = IF tMounted /\ (depChanged \/ tState' # tState \/ tRate' # tRate)
                THEN elapsed' ELSE capElapsed

\* The "Persist progress" effect of the render that follows a change of
\* elapsed: if (elapsed > 0) saveProgress(book.id, elapsed)
PersistProgress ==
  prog' = IF elapsed' # elapsed /\ elapsed' > 0 THEN elapsed' ELSE prog

\* window.speechSynthesis.cancel()
TCanCancel == Len(tSpeech) + Len(tStale) + Len(startTimers) <= MaxPending
TCancelled == tStale \o tSpeech

\* startTimer(): an interval still held by intervalRef is not cleared first.
startTimerClock ==
  /\ sinceStart' = pausedAtRef
  /\ leakedInterval' = (leakedInterval \/ intervalRef = "live")

startTimer ==
  /\ startTimerClock
  /\ intervalRef' = "live"

\* speakChunk(index) of a render whose rate is r, with the engine holding
\* eng; st is the play state, pa the pausedAtRef and iv the intervalRef its
\* caller left. Past the last chunk stopTimer() stores the elapsed of the
\* render the closure belongs to: some earlier value of elapsed.
speakChunk(index, r, eng, st, pa, iv) ==
  IF index >= NumChunks
  THEN /\ tState' = TSetState("ended")
       /\ intervalRef' = "null"
       /\ pausedAtRef' \in 0 .. estimatedSeconds
       /\ tSpeech' = eng
  ELSE /\ tState' = st
       /\ pausedAtRef' = pa
       /\ tSpeech' = Append(eng, [kind |-> "chunk", idx |-> index, rate |-> r])
       /\ intervalRef' = iv

\* utter.onend of utterance u
TAfterEnd(u, eng) ==
  IF u.kind = "chunk"
  THEN /\ chunkIndexRef' = u.idx + 1
       /\ speakChunk(u.idx + 1, u.rate, eng, tState,
                     pausedAtRef, intervalRef)
  ELSE /\ tState' = TSetState("ended")
       /\ tSpeech' = eng
       /\ UNCHANGED <<chunkIndexRef, intervalRef, pausedAtRef>>

\* utter.onerror of utterance u (the utterance of handleRate sets none)
TAfterError(u, eng) ==
  /\ tState' = IF u.kind = "chunk" THEN TSetState("idle") ELSE tState
  /\ tSpeech' = eng
  /\ UNCHANGED <<chunkIndexRef, intervalRef, pausedAtRef>>

RemoveAt(s, i) == [j \in 1 .. (Len(s) - 1) |-> IF j < i THEN s[j] ELSE s[j + 1]]

\* ------------------------------------------------ timer player: operations

\* A handlePlay that enters loading without scheduling the 300 ms start.
handlePlayStartNoTimer ==
  /\ tMounted
  /\ tState \in {"idle", "ended"}
  /\ Len(tSpeech) + Len(tStale) + Len(startTimers) < MaxPending
  /\ tStale' = TCancelled
  /\ tSpeech' = <<>>
  /\ chunkIndexRef' = 0
  /\ pausedAtRef' = 0
  /\ elapsed' = 0
  /\ tState' = "loading"
  /\ startTimers' = startTimers
  /\ stopped' = FALSE
  /\ UNCHANGED <<tRate, intervalRef, sinceStart, tMounted, leakedInterval,
                 tSpeechPaused>>
  /\ Rerender(FALSE)
  /\ resumedFrom' = -1
  /\ UNCHANGED <<estimatedSeconds, prog>>
  /\ UNCHANGED <<qvars, rvars, cvars, bvars>>

\* handlePlay, in idle or ended: cancel, re-chunk, reset, start after 300 ms
handlePlayStart ==
  /\ tMounted
  /\ tState \in {"idle", "ended"}
  /\ Len(tSpeech) + Len(tStale) + Len(startTimers) < MaxPending
  /\ tStale' = TCancelled
  /\ tSpeech' = <<>>
  /\ chunkIndexRef' = 0
  /\ pausedAtRef' = 0
  /\ elapsed' = 0
  /\ tState' = "loading"
  /\ startTimers' = Append(startTimers, tRate)
  /\ stopped' = FALSE
  /\ UNCHANGED <<tRate, intervalRef, sinceStart, tMounted, leakedInterval,
                 tSpeechPaused>>
  /\ Rerender(FALSE)
  /\ resumedFrom' = -1
  /\ UNCHANGED <<estimatedSeconds, prog>>
  /\ UNCHANGED <<qvars, rvars, cvars, bvars>>

\* The Resume button of the banner, which is shown while hasResumePoint:
\* pausedAtRef.current = progressSaved; setElapsed(progressSaved); handlePlay().
\* handlePlay runs in idle, so it sets pausedAtRef.current and elapsed back to
\* 0 before anything reads them; the render that follows sees elapsed = 0.
resumeClick ==
  /\ tMounted
  /\ tState = "idle"
  /\ prog > ResumeThreshold
  /\ Len(tSpeech) + Len(tStale) + Len(startTimers) < MaxPending
  /\ tStale' = TCancelled
  /\ tSpeech' = <<>>
  /\ chunkIndexRef' = 0
  /\ pausedAtRef' = 0
  /\ elapsed' = 0
  /\ tState' = "loading"
  /\ startTimers' = Append(startTimers, tRate)
  /\ stopped' = FALSE
  /\ resumedFrom' = prog
  /\ UNCHANGED <<tRate, intervalRef, sinceStart, tMounted, leakedInterval,
                 tSpeechPaused>>
  /\ Rerender(FALSE)
  /\ PersistProgress
  /\ UNCHANGED estimatedSeconds
  /\ UNCHANGED <<qvars, rvars, cvars, bvars>>

\* handlePlay, in paused: resume
handlePlayResume ==
  /\ tMounted
  /\ tState = "paused"
  /\ tSpeechPaused' = FALSE
  /\ tState' = "playing"
  /\ startTimer
  /\ stopped' = FALSE
  /\ UNCHANGED <<elapsed, tRate, pausedAtRef, chunkIndexRef, tMounted,
                 startTimers, tSpeech, tStale>>
  /\ Rerender(FALSE)
  /\ UNCHANGED <<resumedFrom, estimatedSeconds, prog>>
  /\ UNCHANGED <<qvars, rvars, cvars, bvars>>

\* handlePlay, in playing: pause; stopTimer() stores the elapsed it captured
handlePlayPause ==
  /\ tMounted
  /\ tState = "playing"
  /\ tSpeechPaused' = TRUE
  /\ tState' = "paused"
  /\ intervalRef' = "null"
  /\ pausedAtRef' = capElapsed
  /\ UNCHANGED <<elapsed, tRate, sinceStart, chunkIndexRef, tMounted,
                 leakedInterval, startTimers, tSpeech, tStale, stopped>>
  /\ Rerender(FALSE)
  /\ UNCHANGED <<resumedFrom, estimatedSeconds, prog>>
  /\ UNCHANGED <<qvars, rvars, cvars, bvars>>

handlePlay == handlePlayStart \/ handlePlayResume \/ handlePlayPause

\* The callback of setTimeout(..., 300): setState("playing"); startTimer();
\* speakChunk(0), all of the render in which handlePlay was clicked.
startTimerFires(i, tone) ==
  /\ i \in 1 .. Len(startTimers)
  /\ startTimers' = RemoveAt(startTimers, i)
  /\ startTimerClock
  /\ speakChunk(0, startTimers[i], tSpeech, TSetState("playing"), pausedAtRef,
                "live")
  /\ UNCHANGED <<elapsed, tRate, chunkIndexRef, tMounted, tSpeechPaused, tStale,
                 stopped>>
  /\ Rerender(tone)
  /\ UNCHANGED <<resumedFrom, estimatedSeconds, prog>>
  /\ UNCHANGED <<qvars, rvars, cvars, bvars>>

\* The Stop button is disabled in idle.
tHandleStop ==
  /\ tMounted
  /\ tState # "idle"
  /\ TCanCancel
  /\ tStale' = TCancelled
  /\ tSpeech' = <<>>
  /\ tState' = "idle"
  /\ intervalRef' = "null"
  /\ elapsed' = 0
  /\ pausedAtRef' = 0
  /\ stopped' = TRUE
  /\ UNCHANGED <<tRate, sinceStart, chunkIndexRef, tMounted, leakedInterval,
                 startTimers, tSpeechPaused>>
  /\ Rerender(FALSE)
  /\ resumedFrom' = -1
  /\ UNCHANGED <<estimatedSeconds, prog>>
  /\ UNCHANGED <<qvars, rvars, cvars, bvars>>

\* The Repeat button is disabled in idle.
tHandleRepeat(tone) ==
  /\ tMounted
  /\ tState # "idle"
  /\ TCanCancel
  /\ LET index == IF chunkIndexRef > 0 THEN chunkIndexRef - 1 ELSE chunkIndexRef
     IN /\ chunkIndexRef' = index
        /\ tStale' = TCancelled
        /\ speakChunk(index, tRate, <<>>, "playing",
                      pausedAtRef, intervalRef)
  /\ stopped' = FALSE
  /\ UNCHANGED <<elapsed, tRate, sinceStart, tMounted, leakedInterval,
                 startTimers, tSpeechPaused>>
  /\ Rerender(tone)
  /\ UNCHANGED <<resumedFrom, estimatedSeconds, prog>>
  /\ UNCHANGED <<qvars, rvars, cvars, bvars>>

\* handleRate(r): while playing, the rest of the text becomes one utterance
handleRate(r) ==
  /\ tMounted
  /\ tRate' = r
  /\ IF tState = "playing"
     THEN /\ TCanCancel
          /\ tStale' = TCancelled
          /\ tSpeech' = <<[kind |-> "rest", idx |-> chunkIndexRef, rate |-> r]>>
          /\ stopped' = FALSE
     ELSE UNCHANGED <<tStale, tSpeech, stopped>>
  /\ UNCHANGED <<tState, elapsed, intervalRef, sinceStart, pausedAtRef,
                 chunkIndexRef, tMounted, leakedInterval, startTimers,
                 tSpeechPaused>>
  /\ Rerender(FALSE)
  /\ UNCHANGED <<resumedFrom, estimatedSeconds, prog>>
  /\ UNCHANGED <<qvars, rvars, cvars, bvars>>

\* setVolume / setMuted / setMode / setEmotion / setSelectedVoice: another dep
\* of handlePlay changes
settingsChange ==
  /\ tMounted
  /\ capElapsed # elapsed
  /\ capElapsed' = elapsed
  /\ UNCHANGED <<tState, elapsed, tRate, intervalRef, sinceStart, pausedAtRef,
                 chunkIndexRef, tMounted, leakedInterval, startTimers, tSpeech,
                 tSpeechPaused, tStale, stopped>>
  /\ UNCHANGED <<resumedFrom, estimatedSeconds, prog>>
  /\ UNCHANGED <<qvars, rvars, cvars, bvars>>

\* The cleanup of the voices effect: cancel() and clearInterval
tUnmount ==
  /\ tMounted
  /\ TCanCancel
  /\ tMounted' = FALSE
  /\ tStale' = TCancelled
  /\ tSpeech' = <<>>
  /\ intervalRef' = IF intervalRef = "live" THEN "cleared" ELSE intervalRef
  /\ stopped' = TRUE
  /\ UNCHANGED <<tState, elapsed, tRate, sinceStart, pausedAtRef, chunkIndexRef,
                 capElapsed, leakedInterval, startTimers, tSpeechPaused>>
  /\ voice' = VoiceOff
  /\ UNCHANGED <<bookmarks, storedBookmarks, nextId, kept>>
  /\ UNCHANGED <<resumedFrom, estimatedSeconds, prog>>
  /\ UNCHANGED <<qvars, rvars, cvars, pvars>>

\* A second passes while an interval is running. Every reading of the clock
\* at or past estimatedSeconds has the same effect, so the clock stops there.
tick ==
  /\ intervalRef = "live" \/ leakedInterval
  /\ sinceStart < estimatedSeconds
  /\ sinceStart' = sinceStart + 1
  /\ UNCHANGED <<tState, elapsed, tRate, intervalRef, pausedAtRef, chunkIndexRef,
                 tMounted, capElapsed, leakedInterval, startTimers, tSpeech,
                 tSpeechPaused, tStale, stopped>>
  /\ UNCHANGED <<resumedFrom, estimatedSeconds, prog>>
  /\ UNCHANGED <<qvars, rvars, cvars, bvars>>

\* The setInterval callback of startTimer
intervalFires ==
  /\ intervalRef = "live" \/ leakedInterval
  /\ elapsed' = IF tMounted THEN Min(sinceStart, estimatedSeconds) ELSE elapsed
  /\ intervalRef' = IF sinceStart >= estimatedSeconds /\ intervalRef = "live"
                    THEN "cleared" ELSE intervalRef
  /\ UNCHANGED <<tState, tRate, sinceStart, pausedAtRef, chunkIndexRef, tMounted,
                 capElapsed, leakedInterval, startTimers, tSpeech, tSpeechPaused,
                 tStale, stopped>>
  /\ PersistProgress
  /\ UNCHANGED <<resumedFrom, estimatedSeconds>>
  /\ UNCHANGED <<qvars, rvars, cvars, bvars>>

\* The utterance that is sounding ends.
tUtterEnd(tone) ==
  /\ tSpeech # <<>>
  /\ ~tSpeechPaused
  /\ TAfterEnd(Head(tSpeech), Tail(tSpeech))
  /\ UNCHANGED <<elapsed, tRate, sinceStart, tMounted, leakedInterval,
                 startTimers, tSpeechPaused, tStale, stopped>>
  /\ Rerender(tone)
  /\ UNCHANGED <<resumedFrom, estimatedSeconds, prog>>
  /\ UNCHANGED <<qvars, rvars, cvars, bvars>>

\* The utterance that is sounding fails.
tUtterError ==
  /\ tSpeech # <<>>
  /\ ~tSpeechPaused
  /\ TAfterError(Head(tSpeech), Tail(tSpeech))
  /\ UNCHANGED <<elapsed, tRate, sinceStart, tMounted, leakedInterval,
                 startTimers, tSpeechPaused, tStale, stopped>>
  /\ Rerender(FALSE)
  /\ UNCHANGED <<resumedFrom, estimatedSeconds, prog>>
  /\ UNCHANGED <<qvars, rvars, cvars, bvars>>

\* The end event of an utterance removed by cancel() is delivered.
tStaleEnd(i, tone) ==
  /\ i \in 1 .. Len(tStale)
  /\ tStale' = RemoveAt(tStale, i)
  /\ TAfterEnd(tStale[i], tSpeech)
  /\ UNCHANGED <<elapsed, tRate, sinceStart, tMounted, leakedInterval,
                 startTimers, tSpeechPaused, stopped>>
  /\ Rerender(tone)
  /\ UNCHANGED <<resumedFrom, estimatedSeconds, prog>>
  /\ UNCHANGED <<qvars, rvars, cvars, bvars>>

\* The error event of an utterance removed by cancel() is delivered.
tStaleError(i) ==
  /\ i \in 1 .. Len(tStale)
  /\ tStale' = RemoveAt(tStale, i)
  /\ TAfterError(tStale[i], tSpeech)
  /\ UNCHANGED <<elapsed, tRate, sinceStart, tMounted, leakedInterval,
                 startTimers, tSpeechPaused, stopped>>
  /\ Rerender(FALSE)
  /\ UNCHANGED <<resumedFrom, estimatedSeconds, prog>>
  /\ UNCHANGED <<qvars, rvars, cvars, bvars>>

\* ------------------------------------------------ timer player: bookmarks

\* The bookmark addBookmark builds: id, elapsed of the render it runs in and
\* chunkIndexRef.current.
NewBookmark(el) == [id |-> nextId, elapsed |-> el, charIndex |-> chunkIndexRef]

\* setBookmarks(updated); saveBookmarks(book.id, updated)
SetAndSaveBookmarks(updated) ==
  /\ bookmarks' = updated
  /\ storedBookmarks' = updated

\* addBookmark from the button, which is enabled while playing: it runs in the
\* current render.
addBookmark ==
  /\ tMounted
  /\ tState = "playing"
  /\ nextId <= MaxBookmarks
  /\ SetAndSaveBookmarks(Append(bookmarks, NewBookmark(elapsed)))
  /\ nextId' = nextId + 1
  /\ kept' = kept \cup {nextId}
  /\ UNCHANGED voice
  /\ UNCHANGED <<qvars, tvars, rvars, cvars, pvars>>

\* The recognition handler hears "bookmark": it calls the addBookmark of the
\* render in which startVoiceCommands ran.
voiceAddBookmark ==
  /\ tMounted
  /\ voice.active
  /\ nextId <= MaxBookmarks
  /\ SetAndSaveBookmarks(Append(voice.bookmarks, NewBookmark(voice.elapsed)))
  /\ nextId' = nextId + 1
  /\ kept' = kept \cup {nextId}
  /\ UNCHANGED voice
  /\ UNCHANGED <<qvars, tvars, rvars, cvars, pvars>>

\* removeBookmark(id) from the bookmarks panel, which lists bookmarks
removeBookmark(id) ==
  /\ tMounted
  /\ \E i \in 1 .. Len(bookmarks) : bookmarks[i].id = id
  /\ SetAndSaveBookmarks(SelectSeq(bookmarks, LAMBDA b : b.id # id))
  /\ kept' = kept \ {id}
  /\ UNCHANGED <<nextId, voice>>
  /\ UNCHANGED <<qvars, tvars, rvars, cvars, pvars>>

\* jumpToBookmark(bm) from the bookmarks panel, bm being its i-th entry: the
\* chunk is spoken only if the state is playing.
jumpToBookmark(i) ==
  /\ tMounted
  /\ i \in 1 .. Len(bookmarks)
  /\ TCanCancel
  /\ tStale' = TCancelled
  /\ chunkIndexRef' = bookmarks[i].charIndex
  /\ elapsed' = bookmarks[i].elapsed
  /\ IF tState = "playing"
     THEN speakChunk(bookmarks[i].charIndex, tRate, <<>>, tState,
                     bookmarks[i].elapsed, intervalRef)
     ELSE /\ tSpeech' = <<>>
          /\ pausedAtRef' = bookmarks[i].elapsed
          /\ UNCHANGED <<tState, intervalRef>>
  /\ UNCHANGED <<tRate, sinceStart, tMounted, leakedInterval, startTimers,
                 tSpeechPaused, stopped>>
  /\ Rerender(FALSE)
  /\ PersistProgress
  /\ UNCHANGED <<resumedFrom, estimatedSeconds>>
  /\ UNCHANGED mvars
  /\ UNCHANGED <<qvars, rvars, cvars, pvars>>

\* toggleVoiceCmd while voice commands are off: r.onresult closes over the
\* handlers of this render.
startVoiceCommands ==
  /\ tMounted
  /\ ~voice.active
  /\ voice' = [active |-> TRUE, bookmarks |-> bookmarks, elapsed |-> elapsed]
  /\ UNCHANGED <<bookmarks, storedBookmarks, nextId, kept>>
  /\ UNCHANGED <<qvars, tvars, rvars, cvars, pvars>>

\* toggleVoiceCmd while voice commands are on
stopVoiceCommands ==
  /\ tMounted
  /\ voice.active
  /\ voice' = VoiceOff
  /\ UNCHANGED <<bookmarks, storedBookmarks, nextId, kept>>
  /\ UNCHANGED <<qvars, tvars, rvars, cvars, pvars>>

\* The player is opened again for the same book once every callback of the
\* closed one has run: a new component, bookmarks = loadBookmarks(book.id).
reopen ==
  /\ ~tMounted
  /\ tSpeech = <<>> /\ tStale = <<>> /\ startTimers = <<>>
  /\ tMounted' = TRUE
  /\ tState' = "idle"
  /\ elapsed' = 0
  /\ tRate' = 100
  /\ intervalRef' = "null"
  /\ sinceStart' = 0
  /\ pausedAtRef' = prog
  /\ chunkIndexRef' = 0
  /\ capElapsed' = 0
  /\ leakedInterval' = FALSE
  /\ tSpeechPaused' = FALSE
  /\ stopped' = FALSE
  /\ bookmarks' = storedBookmarks
  /\ UNCHANGED <<tSpeech, tStale, startTimers>>
  /\ UNCHANGED <<storedBookmarks, nextId, kept, voice>>
  /\ resumedFrom' = -1
  /\ UNCHANGED <<estimatedSeconds, prog>>
  /\ UNCHANGED <<qvars, rvars, cvars, pvars>>

MNext ==
  \/ handlePlayStart
  \/ \E i \in 1 .. MaxPending, tone \in BOOLEAN : startTimerFires(i, tone)
  \/ tHandleStop
  \/ tUnmount
  \/ \E tone \in BOOLEAN : tUtterEnd(tone)
  \/ \E i \in 1 .. MaxPending, tone \in BOOLEAN : tStaleEnd(i, tone)
  \/ \E i \in 1 .. MaxPending : tStaleError(i)
  \/ addBookmark
  \/ voiceAddBookmark
  \/ \E id \in 1 .. MaxBookmarks : removeBookmark(id)
  \/ startVoiceCommands
  \/ stopVoiceCommands
  \/ reopen

\* The ids of a list of bookmarks.
IdsOf(list) == {list[i].id : i \in 1 .. Len(list)}

\* C29: the stored list equals the list of the open player and holds every
\* bookmark that was added and not removed exactly once; stop, the end of
\* playback and unmount leave the stored list unchanged, and a reopened
\* player starts with the stored list.
C29_BookmarksPersist ==
  [][/\ (tMounted' => bookmarks' = storedBookmarks')
     /\ IdsOf(storedBookmarks') = kept'
     /\ Len(storedBookmarks') = Cardinality(kept')
     /\ (tHandleStop \/ tUnmount \/ (tState # "ended" /\ tState' = "ended") =>
           storedBookmarks' = storedBookmarks)
     /\ (reopen => bookmarks' = storedBookmarks)]_vars

\* ------------------------------------------------- timer player: properties

\* C6: from handleStop or unmount until the next play command no utterance is
\* handed to the speech engine and the play state does not change: neither the
\* pending 300 ms start timer nor a callback of the cancelled utterance acts.
C6_NothingStartsAfterStop ==
  [][(stopped /\ stopped') =>
       /\ Len(tSpeech') <= Len(tSpeech)
       /\ tState' = tState]_vars

\* C8: pause stores the elapsed value of that moment as the restart point and
\* resume restarts the clock from it, so elapsed is never set back; neither
\* step changes chunkIndexRef.
C8_ElapsedContinuesAfterResume ==
  [][/\ (handlePlayPause =>
           /\ pausedAtRef' = elapsed
           /\ elapsed' = elapsed
           /\ chunkIndexRef' = chunkIndexRef)
     /\ (handlePlayResume =>
           /\ sinceStart' = elapsed
           /\ elapsed' = elapsed
           /\ chunkIndexRef' = chunkIndexRef)]_vars

\* C22: an open timer player that is loading eventually leaves loading: the
\* 300 ms start timer scheduled with the loading state fires and sets playing,
\* unless a stop or a repeat changed the state before.
C22_LoadingIsEventuallyLeft ==
  (tMounted /\ tState = "loading") ~> (~tMounted \/ tState # "loading")

\* The start timer has fired: playing from the first chunk with the clock
\* running and no start pending.
C22_StartedAfterLoading ==
  /\ tMounted /\ tState = "playing" /\ ~stopped
  /\ startTimers = <<>>
  /\ intervalRef = "live"
  /\ chunkIndexRef = 0
  /\ Len(tSpeech) = 1 /\ tStale = <<>> /\ ~tSpeechPaused

\* C31: playback started by the Resume action with a saved progress p > 5
\* continues from p: once playing, the clock and the elapsed counter are at
\* or past p, and the stored progress has not fallen below p.
C31_ResumeContinuesFromSavedProgress ==
  (tMounted /\ resumedFrom > ResumeThreshold /\ tState = "playing") =>
    /\ sinceStart >= resumedFrom
    /\ elapsed >= resumedFrom
    /\ prog >= resumedFrom

\* A click on the Repeat button, or the spoken "repeat".
RepeatStep == \E tone \in BOOLEAN : tHandleRepeat(tone)

\* C32: handleRepeat issued while chunk k is sounding restarts chunk k itself,
\* for k = 0 and for k > 0 alike, and leaves the state playing.
C32_RepeatRestartsSoundingChunk ==
  [][(/\ tMounted /\ tState = "playing" /\ ~tSpeechPaused
      /\ tSpeech # <<>> /\ Head(tSpeech).kind = "chunk"
      /\ RepeatStep) =>
       (/\ tState' = "playing"
        /\ Len(tSpeech') = 1
        /\ tSpeech'[Len(tSpeech')].kind = "chunk"
        /\ tSpeech'[Len(tSpeech')].idx = Head(tSpeech).idx)]_vars

\* The utterance handleRate made of the rest of the text is the one sounding.
RestSounding == tSpeech # <<>> /\ Head(tSpeech).kind = "rest"

\* C34: handleRate(r) while chunk k is playing leaves one utterance in the
\* engine, the chunks from k on at rate r, and the state playing; while that
\* utterance is sounding nothing is queued behind it and the state does not
\* become idle or ended; when it ends the state becomes ended and nothing is
\* narrated afterwards.
C34_RateChangeNarratesRestOnce ==
  [][/\ \A r \in Rates :
          (/\ tState = "playing" /\ tSpeech # <<>>
           /\ Head(tSpeech).kind = "chunk" /\ handleRate(r)) =>
            (/\ tSpeech' = <<[kind |-> "rest", idx |-> Head(tSpeech).idx, rate |-> r]>>
             /\ tState' = "playing")
     /\ (tMounted /\ RestSounding) =>
          /\ Len(tSpeech) = 1
          /\ ((tState' # tState /\ tState' \in {"idle", "ended"}) => tSpeech' = <<>>)
          /\ ((\E tone \in BOOLEAN : tUtterEnd(tone)) => tState' = "ended")]_vars

\* C37: resume hands the narration back to the speech engine: after the
\* resume step, also one that follows jumpToBookmark(bm) in the paused state,
\* the engine is running and holds the chunk at chunkIndexRef (bm.charIndex
\* after a jump), so that the state playing is never left with no utterance
\* pending.
C37_ResumeAfterJumpNarrates ==
  [][handlePlayResume =>
       /\ ~tSpeechPaused'
       /\ Len(tSpeech') >= 1
       /\ tSpeech'[Len(tSpeech')].idx = chunkIndexRef']_vars

\* ------------------------------------------------------- remote synthesis
\* (src/lib/ttsEngine.ts, supabase/functions/text-to-speech/index.ts)

TextLimit == 5000
MinSpeed == 70
MaxSpeed == 120

Max(a, b) == IF a >= b THEN a ELSE b

\* No request has been made.
RIdle ==
  /\ apiKey = TRUE
  /\ rPhase = "idle"
  /\ reqText = 0
  /\ reqSpeed = <<100>>
  /\ upText = -1
  /\ upSpeed = 0
  /\ respStatus = 0
  /\ clientResult = "none"

RInit ==
  /\ apiKey \in BOOLEAN
  /\ rPhase = "idle"
  /\ reqText = 0
  /\ reqSpeed = <<100>>
  /\ upText = -1
  /\ upSpeed = 0
  /\ respStatus = 0
  /\ clientResult = "none"

\* synthesizeOnline(text, voiceId, speed) up to its await fetch(...); speed is
\* <<>> when the caller omits the argument (default 1.0), and the body always
\* carries a speed.
synthesizeOnline(len, speed) ==
  /\ rPhase = "idle"
  /\ rPhase' = "requested"
  /\ reqText' = len
  /\ reqSpeed' = IF speed = <<>> THEN <<100>> ELSE speed
  /\ UNCHANGED <<apiKey, upText, upSpeed, respStatus, clientResult>>
  /\ UNCHANGED <<qvars, tvars, cvars, bvars>>

\* A POST to the function by another caller: req.json() yields a body whose
\* speed field may be absent.
postRequest(len, speed) ==
  /\ rPhase = "idle"
  /\ rPhase' = "requested"
  /\ reqText' = len
  /\ reqSpeed' = speed
  /\ clientResult' = "foreign"
  /\ UNCHANGED <<apiKey, upText, upSpeed, respStatus>>
  /\ UNCHANGED <<qvars, tvars, cvars, bvars>>

\* const { text, voiceId = ..., speed = 1.0 } = await req.json()
RequestedSpeed == IF reqSpeed = <<>> THEN 100 ELSE reqSpeed[1]

\* A handler that forwards the requested speed as it is.
serveUnclamped ==
  /\ rPhase = "requested"
  /\ IF ~apiKey
     THEN /\ respStatus' = 500
          /\ rPhase' = "responded"
          /\ UNCHANGED <<upText, upSpeed>>
     ELSE IF reqText = 0
     THEN /\ respStatus' = 400
          /\ rPhase' = "responded"
          /\ UNCHANGED <<upText, upSpeed>>
     ELSE /\ upText' = Min(reqText, TextLimit)
          /\ upSpeed' = RequestedSpeed
          /\ rPhase' = "upstream"
          /\ UNCHANGED respStatus
  /\ UNCHANGED <<apiKey, reqText, reqSpeed, clientResult>>
  /\ UNCHANGED <<qvars, tvars, cvars, bvars>>

\* A handler that forwards the whole text.
serveWholeText ==
  /\ rPhase = "requested"
  /\ IF ~apiKey
     THEN /\ respStatus' = 500
          /\ rPhase' = "responded"
          /\ UNCHANGED <<upText, upSpeed>>
     ELSE IF reqText = 0
     THEN /\ respStatus' = 400
          /\ rPhase' = "responded"
          /\ UNCHANGED <<upText, upSpeed>>
     ELSE /\ upText' = reqText
          /\ upSpeed' = Max(MinSpeed, Min(MaxSpeed, RequestedSpeed))
          /\ rPhase' = "upstream"
          /\ UNCHANGED respStatus
  /\ UNCHANGED <<apiKey, reqText, reqSpeed, clientResult>>
  /\ UNCHANGED <<qvars, tvars, cvars, bvars>>

\* serve(req) up to its await fetch(...) of the upstream service
serve ==
  /\ rPhase = "requested"
  /\ IF ~apiKey
     THEN /\ respStatus' = 500
          /\ rPhase' = "responded"
          /\ UNCHANGED <<upText, upSpeed>>
     ELSE IF reqText = 0
     THEN /\ respStatus' = 400
          /\ rPhase' = "responded"
          /\ UNCHANGED <<upText, upSpeed>>
     ELSE /\ upText' = Min(reqText, TextLimit)
          /\ upSpeed' = Max(MinSpeed, Min(MaxSpeed, RequestedSpeed))
          /\ rPhase' = "upstream"
          /\ UNCHANGED respStatus
  /\ UNCHANGED <<apiKey, reqText, reqSpeed, clientResult>>
  /\ UNCHANGED <<qvars, tvars, cvars, bvars>>

\* A handler that answers every upstream failure with 500.
upstreamAnswersGeneric(status) ==
  /\ rPhase = "upstream"
  /\ respStatus' = IF status >= 200 /\ status <= 299 THEN 200
                   ELSE 500
  /\ rPhase' = "responded"
  /\ UNCHANGED <<apiKey, reqText, reqSpeed, upText, upSpeed, clientResult>>
  /\ UNCHANGED <<qvars, tvars, cvars, bvars>>

\* serve(req) after the upstream service answered with status
upstreamAnswers(status) ==
  /\ rPhase = "upstream"
  /\ respStatus' = IF status >= 200 /\ status <= 299 THEN 200
                   ELSE IF status = 429 THEN 429 ELSE 500
  /\ rPhase' = "responded"
  /\ UNCHANGED <<apiKey, reqText, reqSpeed, upText, upSpeed, clientResult>>
  /\ UNCHANGED <<qvars, tvars, cvars, bvars>>

\* serve(req): await req.json() throws on a body that is not JSON (it holds
\* no text, and synthesizeOnline never sends one), the catch block answers
requestThrows ==
  /\ rPhase = "requested"
  /\ clientResult = "foreign"
  /\ reqText = 0
  /\ apiKey
  /\ respStatus' = 500
  /\ rPhase' = "responded"
  /\ UNCHANGED <<apiKey, reqText, reqSpeed, upText, upSpeed, clientResult>>
  /\ UNCHANGED <<qvars, tvars, cvars, bvars>>

\* serve(req): the upstream fetch throws, the catch block answers
upstreamThrows ==
  /\ rPhase = "upstream"
  /\ respStatus' = 500
  /\ rPhase' = "responded"
  /\ UNCHANGED <<apiKey, reqText, reqSpeed, upText, upSpeed, clientResult>>
  /\ UNCHANGED <<qvars, tvars, cvars, bvars>>

\* synthesizeOnline after its await: !resp.ok throws, else the bytes are
\* returned. Nothing else happens on failure: no local synthesis is started.
clientReceives ==
  /\ rPhase = "responded"
  /\ clientResult = "none"
  /\ clientResult' = IF respStatus >= 200 /\ respStatus <= 299
                     THEN "audio" ELSE "thrown"
  /\ rPhase' = "done"
  /\ UNCHANGED <<apiKey, reqText, reqSpeed, upText, upSpeed, respStatus>>
  /\ UNCHANGED <<qvars, tvars, cvars, bvars>>

\* The fetch of synthesizeOnline itself rejects (the function is unreachable).
clientFetchFails ==
  /\ rPhase \in {"requested", "upstream", "responded"}
  /\ clientResult = "none"
  /\ clientResult' = "thrown"
  /\ rPhase' = "done"
  /\ UNCHANGED <<apiKey, reqText, reqSpeed, upText, upSpeed, respStatus>>
  /\ UNCHANGED <<qvars, tvars, cvars, bvars>>

TextLengths == {0, 1, TextLimit - 1, TextLimit, TextLimit + 1}
Speeds == {50, MinSpeed, 100, MaxSpeed, 200}
SpeedFields == {<<>>} \cup {<<speed>> : speed \in Speeds}
UpstreamStatuses == {200, 204, 400, 401, 429, 500}

RNext ==
  \/ \E len \in TextLengths, speed \in SpeedFields : synthesizeOnline(len, speed)
  \/ \E len \in TextLengths, speed \in SpeedFields : postRequest(len, speed)
  \/ serve
  \/ \E status \in UpstreamStatuses : upstreamAnswers(status)
  \/ requestThrows
  \/ upstreamThrows
  \/ clientReceives
  \/ clientFetchFails

\* ------------------------------------------------ remote synthesis: properties

\* The function answered the request of synthesizeOnline with an error status
\* (429 or another failure) and the client has received the answer.
RemoteFailed == rPhase = "done" /\ respStatus >= 300

\* C9: when the remote synthesis of a chunk fails while the function is
\* reachable, no error reaches the caller and the chunk is handed to the local
\* engine instead.
C9_RemoteFailureFallsBackToLocal ==
  RemoteFailed =>
    /\ clientResult # "thrown"
    /\ speechQueue # <<>>

\* The handler has forwarded the request to the upstream service.
Forwarded == upText # -1

\* C25: the speed forwarded upstream is min(1.2, max(0.7, requested speed)),
\* with 1.0 for a request without a speed, and so lies in [0.7, 1.2].
C25_ForwardedSpeedIsClamped ==
  Forwarded =>
    /\ upSpeed = Min(MaxSpeed, Max(MinSpeed, RequestedSpeed))
    /\ MinSpeed <= upSpeed /\ upSpeed <= MaxSpeed
    /\ (reqSpeed = <<>> => upSpeed = 100)

\* A request for speed 2.0 was forwarded with speed 1.2.
C25_FastRequestForwarded ==
  Forwarded /\ reqSpeed = <<200>> /\ upSpeed = MaxSpeed

\* C26: the text forwarded upstream is the first TextLimit characters of the
\* requested text: never longer than TextLimit, and once a configured
\* function has handled a longer text it has forwarded it truncated, not
\* rejected it.
C26_ForwardedTextIsTruncated ==
  /\ (Forwarded => upText = Min(reqText, TextLimit) /\ upText <= TextLimit)
  /\ (apiKey /\ reqText > TextLimit /\ rPhase \in {"upstream", "responded"}
        => Forwarded /\ upText = TextLimit)

\* A text one character over the limit was forwarded and answered with audio.
C26_LongTextAnswered ==
  /\ reqText = TextLimit + 1 /\ upText = TextLimit
  /\ rPhase = "done" /\ respStatus = 200 /\ clientResult = "audio"

\* C27: an upstream 429 is answered with 429, every other upstream failure
\* and every exception with 500; a missing key or a missing text is answered
\* with an error without an upstream request; audio is returned only for an
\* upstream success, and synthesizeOnline throws on every other answer.
C27_ErrorsAreMapped ==
  [][/\ \A status \in UpstreamStatuses :
          upstreamAnswers(status) =>
            /\ (status = 429 => respStatus' = 429)
            /\ (status \in 200 .. 299 => respStatus' \in 200 .. 299)
            /\ (status \notin 200 .. 299 /\ status # 429 => respStatus' = 500)
     /\ (upstreamThrows \/ requestThrows => respStatus' = 500)
     /\ (requestThrows => ~Forwarded')
     /\ (serve /\ (~apiKey \/ reqText = 0) =>
           /\ respStatus' >= 400
           /\ rPhase' = "responded"
           /\ ~Forwarded')
     /\ (clientReceives =>
           /\ (respStatus \in 200 .. 299 => clientResult' = "audio" /\ Forwarded)
           /\ (respStatus \notin 200 .. 299 => clientResult' = "thrown"))]_vars

\* The upstream service answered 429 and synthesizeOnline threw on the 429
\* of the function.
C27_RateLimitReachedClient ==
  rPhase = "done" /\ Forwarded /\ respStatus = 429 /\ clientResult = "thrown"

\* -------------------------------------------------------------- chunkText
\* (src/components/AudioPlayer.tsx). A text is a sequence of characters: a
\* letter, a blank and a terminal punctuation mark stand for their classes.

Chars == {"a", " ", "."}
IsTerminal(c) == c = "."
IsBlank(c) == c = " "

Texts == UNION {[1 .. n -> Chars] : n \in 0 .. MaxTextLen}
MaxLens == 2 .. MaxChunkLen

\* t.substring(i - 1, j - 1)
Slice(t, i, j) == [k \in 1 .. (j - i) |-> t[i + k - 1]]

RECURSIVE SkipWhile(_, _, _)
\* The first position at or after i whose character is not of the class.
SkipWhile(t, i, terminal) ==
  IF i <= Len(t) /\ IsTerminal(t[i]) = terminal
  THEN SkipWhile(t, i + 1, terminal) ELSE i

RECURSIVE MatchAll(_, _)
\* t.match(/[^.!?]+[.!?]+/g) from position i on: a match starts at the first
\* character that is no terminal mark, takes the longest run of such
\* characters and then the longest run of terminal marks; a run that reaches
\* the end of the text without a terminal mark matches nothing.
MatchAll(t, i) ==
  LET start == SkipWhile(t, i, TRUE)
      mid == SkipWhile(t, start, FALSE)
      end == SkipWhile(t, mid, TRUE)
  IN IF start > Len(t) \/ mid > Len(t) THEN <<>>
     ELSE <<Slice(t, start, end)>> \o MatchAll(t, end)

\* t.match(...) || [t]
Sentences(t) == IF MatchAll(t, 1) = <<>> THEN <<t>> ELSE MatchAll(t, 1)

RECURSIVE TrimStart(_)
TrimStart(s) == IF s # <<>> /\ IsBlank(Head(s)) THEN TrimStart(Tail(s)) ELSE s

RECURSIVE TrimEnd(_)
TrimEnd(s) ==
  IF s # <<>> /\ IsBlank(s[Len(s)]) THEN TrimEnd(SubSeq(s, 1, Len(s) - 1)) ELSE s

\* String.prototype.trim
Trim(s) == TrimEnd(TrimStart(s))

\* (current + s).length > maxLen, for a test that looks at the buffer only.
ExceedsWithoutSentence(current, s, maxLen) == Len(current) > maxLen

\* (current + s).length > maxLen
Exceeds(current, s, maxLen) == Len(current) + Len(s) > maxLen

\* The last push without its test: chunks.push(current.trim()).
FinalPushAlways(current, held, chunks) ==
  Append(chunks, [text |-> Trim(current), holds |-> held])

\* if (current.trim()) chunks.push(current.trim()); held lists the sentences
\* that current is made of.
FinalPush(current, held, chunks) ==
  IF Trim(current) # <<>>
  THEN Append(chunks, [text |-> Trim(current), holds |-> held])
  ELSE chunks

RECURSIVE Accumulate(_, _, _, _, _, _)
\* The for loop from sentence k on, followed by the last push.
Accumulate(ss, k, maxLen, current, held, chunks) ==
  IF k > Len(ss) THEN FinalPush(current, held, chunks)
  ELSE IF Exceeds(current, ss[k], maxLen)
  THEN Accumulate(ss, k + 1, maxLen, ss[k], <<k>>,
                  IF current # <<>>
                  THEN Append(chunks, [text |-> Trim(current), holds |-> held])
                  ELSE chunks)
  ELSE Accumulate(ss, k + 1, maxLen, current \o <<" ">> \o ss[k],
                  Append(held, k), chunks)

\* chunkText(t, maxLen): the chunks, each with the indices of its sentences
chunkText(t, maxLen) ==
  LET chunks == Accumulate(Sentences(t), 1, maxLen, <<>>, <<>>, <<>>)
  IN IF Len(chunks) > 0 THEN chunks ELSE <<[text |-> t, holds |-> <<1>>]>>

\* No call of chunkText is under way.
CIdle ==
  /\ cText = <<>>
  /\ cMaxLen = MaxChunkLen
  /\ cSentences = <<>>
  /\ cChunks = <<>>
  /\ cDone = FALSE

CInit ==
  /\ cText \in Texts
  /\ cMaxLen \in MaxLens
  /\ cSentences = <<>>
  /\ cChunks = <<>>
  /\ cDone = FALSE

callChunkText ==
  /\ ~cDone
  /\ cSentences' = Sentences(cText)
  /\ cChunks' = chunkText(cText, cMaxLen)
  /\ cDone' = TRUE
  /\ UNCHANGED <<cText, cMaxLen>>
  /\ UNCHANGED <<qvars, tvars, rvars, bvars>>

CNext == callChunkText

\* ------------------------------------------------------ chunkText: properties

\* The characters of s that are not blanks, in order.
NonBlank(s) == SelectSeq(s, LAMBDA c : ~IsBlank(c))

RECURSIVE Joined(_)
\* The texts of the chunks one after the other.
Joined(chunks) ==
  IF chunks = <<>> THEN <<>> ELSE Head(chunks).text \o Joined(Tail(chunks))

ChunkIdx == 1 .. Len(cChunks)

\* C12: a returned chunk is longer than maxLen only if it consists of a single
\* sentence that is itself longer than maxLen; a chunk of two or more
\* sentences is never longer than maxLen.
C12_ChunkLengthBounded ==
  cDone =>
    \A j \in ChunkIdx :
      \/ Len(cChunks[j].text) <= cMaxLen
      \/ /\ Len(cChunks[j].holds) = 1
         /\ Len(cSentences[cChunks[j].holds[1]]) > cMaxLen

C14_BlankTextYieldsTrimmedChunk ==
  cDone =>
    /\ Len(cChunks) >= 1
    /\ (Trim(cText) = <<>> =>
          /\ Len(cChunks) = 1
          /\ cChunks[1].text = Trim(cText))

\* C15: the chunks joined in order hold the non-blank characters of the text,
\* all of them, once each and in their order.
C15_JoinReproducesText ==
  cDone => NonBlank(Joined(cChunks)) = NonBlank(cText)

\* C16: a sentence longer than maxLen is returned whole as a chunk of its own:
\* it is the only sentence of the one chunk that holds it, and that chunk is
\* the sentence (trimmed).
C16_LongSentenceIsOwnChunk ==
  cDone =>
    \A k \in 1 .. Len(cSentences) :
      Len(cSentences[k]) > cMaxLen =>
        /\ \E j \in ChunkIdx :
             /\ cChunks[j].holds = <<k>>
             /\ cChunks[j].text \in {cSentences[k], Trim(cSentences[k])}
             /\ NonBlank(cChunks[j].text) = NonBlank(cSentences[k])
        /\ \A j \in ChunkIdx :
             (\E i \in 1 .. Len(cChunks[j].holds) : cChunks[j].holds[i] = k) =>
               cChunks[j].holds = <<k>>

\* "a.aaa." with maxLen 3: the second sentence is too long and came back as
\* the second chunk, by itself.
C16_LongSentenceAfterShortOne ==
  /\ cDone
  /\ cMaxLen = 3
  /\ cText = <<"a", ".", "a", "a", "a", ".">>
  /\ Len(cChunks) = 2
  /\ cChunks[1].text = <<"a", ".">>
  /\ cChunks[2].text = <<"a", "a", "a", ".">>

\* ------------------------------------------------ queue player: paragraphs
\* (ParagraphPlayer, lines 143-145). A text is a sequence of characters: a
\* letter and a line break.

BookChars == {"a", "\n"}
BookTexts == UNION {[1 .. n -> BookChars] : n \in 0 .. MaxBookLen}

\* Pre-segmented paragraphs a book may carry: none (the field is undefined),
\* an empty list, or a list of author-edited paragraphs.
EditedParagraphs == {<<"a">>, <<"a", "a">>, <<"a", "\n", "\n", "a">>}
BookLists ==
  {[defined |-> FALSE, list |-> <<>>]} \cup
  {[defined |-> TRUE, list |-> l] :
     l \in UNION {[1 .. n -> EditedParagraphs] : n \in 0 .. MaxBookParagraphs}}

RECURSIVE SkipBreaks(_, _)
\* The first position at or after i that holds no line break.
SkipBreaks(t, i) ==
  IF i <= Len(t) /\ t[i] = "\n" THEN SkipBreaks(t, i + 1) ELSE i

RECURSIVE Split(_, _, _)
\* t.split(/\n\n+/) from position i on, with current the piece read so far: a
\* run of two or more line breaks ends the piece, a single one belongs to it.
Split(t, i, current) ==
  IF i > Len(t) THEN <<current>>
  ELSE IF SkipBreaks(t, i) >= i + 2
       THEN <<current>> \o Split(t, SkipBreaks(t, i), <<>>)
       ELSE Split(t, i + 1, Append(current, t[i]))

\* .filter(Boolean): the empty strings are dropped
FilterBoolean(pieces) == SelectSeq(pieces, LAMBDA piece : piece # <<>>)

\* A derivation that always re-segments the text.
paragraphsOfText(book, text) == FilterBoolean(Split(text, 1, <<>>))

\* book.paragraphs?.length > 0 ? book.paragraphs
\*   : book.translatedText.split(/\n\n+/).filter(Boolean)
paragraphsOf(book, text) ==
  IF book.defined /\ Len(book.list) > 0
  THEN book.list
  ELSE FilterBoolean(Split(text, 1, <<>>))

\* No call of smartSplitParagraphs is made.
SIdle ==
  /\ sText = <<>>
  /\ sParagraphs = <<>>
  /\ sDone = FALSE

BIdle ==
  /\ bookParagraphs = [defined |-> FALSE, list |-> <<>>]
  /\ translatedText = <<>>
  /\ paragraphs = <<>>
  /\ pDone = FALSE
  /\ SIdle
  /\ MIdle

BInit ==
  /\ bookParagraphs \in BookLists
  /\ translatedText \in BookTexts
  /\ paragraphs = <<>>
  /\ pDone = FALSE
  /\ SIdle
  /\ MIdle

render ==
  /\ ~pDone
  /\ paragraphs' = paragraphsOf(bookParagraphs, translatedText)
  /\ pDone' = TRUE
  /\ UNCHANGED <<bookParagraphs, translatedText, sText, sParagraphs, sDone>>
  /\ UNCHANGED <<qvars, tvars, rvars, cvars, mvars>>

BNext == render

RECURSIVE Flatten(_)
\* The concatenation of a sequence of texts.
Flatten(texts) ==
  IF texts = <<>> THEN <<>> ELSE Head(texts) \o Flatten(Tail(texts))

\* C28: when the book carries a non-empty list of pre-segmented paragraphs the
\* paragraphs of the player are that list, element by element in order; the
\* text is split only when the book carries none.
C28_EditedParagraphsTakePrecedence ==
  pDone =>
    IF bookParagraphs.defined /\ bookParagraphs.list # <<>>
    THEN /\ Len(paragraphs) = Len(bookParagraphs.list)
         /\ \A i \in 1 .. Len(paragraphs) : paragraphs[i] = bookParagraphs.list[i]
    ELSE /\ \A i \in 1 .. Len(paragraphs) :
              /\ paragraphs[i] # <<>>
              /\ \A k \in 1 .. (Len(paragraphs[i]) - 1) :
                   ~(paragraphs[i][k] = "\n" /\ paragraphs[i][k + 1] = "\n")
         /\ SelectSeq(translatedText, LAMBDA c : c # "\n")
              = SelectSeq(Flatten(paragraphs), LAMBDA c : c # "\n")

\* A book whose two edited paragraphs differ from the split of its text (the
\* text alone would give the paragraphs a and a).
C28_EditedListUsed ==
  /\ pDone
  /\ translatedText = <<"a", "\n", "\n", "a">>
  /\ bookParagraphs.defined
  /\ paragraphs = <<<<"a", "a">>, <<"a">>>>

\* ------------------------------------------------------ smartSplitParagraphs
\* (src/lib/pronunciationDict.ts)

\* The characters of a text: a letter, a terminal mark, a blank, a line break.
SplitChars == {"a", ".", " ", "\n"}
SplitTexts == UNION {[1 .. n -> SplitChars] : n \in 0 .. MaxSplitLen}

\* White space, as String.prototype.trim removes it.
IsSpace(c) == c \in {" ", "\n"}

RECURSIVE TrimSpaceStart(_)
TrimSpaceStart(s) ==
  IF s # <<>> /\ IsSpace(Head(s)) THEN TrimSpaceStart(Tail(s)) ELSE s

RECURSIVE TrimSpaceEnd(_)
TrimSpaceEnd(s) ==
  IF s # <<>> /\ IsSpace(s[Len(s)])
  THEN TrimSpaceEnd(SubSeq(s, 1, Len(s) - 1)) ELSE s

\* p.trim() of a piece that may hold line breaks
TrimSpace(s) == TrimSpaceEnd(TrimSpaceStart(s))

\* .map(p => p.trim())
MapTrim(pieces) == [k \in 1 .. Len(pieces) |-> TrimSpace(pieces[k])]

\* text.split(/\n{2,}|\r\n{2,}/).map(p => p.trim()).filter(p => p.length > 0)
\* for a text without carriage returns
splitIntoParagraphs(t) == FilterBoolean(MapTrim(Split(t, 1, <<>>)))

RECURSIVE SplitLines(_, _, _)
\* text.split(/\n/) from position i on, with current the line read so far
SplitLines(t, i, current) ==
  IF i > Len(t) THEN <<current>>
  ELSE IF t[i] = "\n" THEN <<current>> \o SplitLines(t, i + 1, <<>>)
       ELSE SplitLines(t, i + 1, Append(current, t[i]))

RECURSIVE GroupSentences(_, _, _, _, _)
\* The for loop from sentence i on (counted from 1): a group is pushed,
\* trimmed, after every size-th sentence and after the last one.
GroupSentences(ss, i, size, current, out) ==
  IF i > Len(ss) THEN out
  ELSE IF i % size = 0 \/ i = Len(ss)
       THEN GroupSentences(ss, i + 1, size, <<>>,
                           Append(out, TrimSpace(current \o ss[i])))
       ELSE GroupSentences(ss, i + 1, size, current \o ss[i], out)

\* A split whose last fallback groups the sentences in pairs.
smartSplitPairs(t) ==
  LET byDouble == splitIntoParagraphs(t)
      byLine == FilterBoolean(MapTrim(SplitLines(t, 1, <<>>)))
  IN IF Len(byDouble) > 1 THEN byDouble
     ELSE IF Len(byLine) > 1 THEN byLine
     ELSE FilterBoolean(GroupSentences(Sentences(t), 1, 2, <<>>, <<>>))

\* smartSplitParagraphs(text)
smartSplitParagraphs(t) ==
  LET byDouble == splitIntoParagraphs(t)
      byLine == FilterBoolean(MapTrim(SplitLines(t, 1, <<>>)))
  IN IF Len(byDouble) > 1 THEN byDouble
     ELSE IF Len(byLine) > 1 THEN byLine
     ELSE FilterBoolean(GroupSentences(Sentences(t), 1, 3, <<>>, <<>>))

\* A text is about to be split.
SInit ==
  /\ sText \in SplitTexts
  /\ sParagraphs = <<>>
  /\ sDone = FALSE

BSplit ==
  /\ bookParagraphs = [defined |-> FALSE, list |-> <<>>]
  /\ translatedText = <<>>
  /\ paragraphs = <<>>
  /\ pDone = FALSE
  /\ SInit
  /\ MIdle

callSmartSplit ==
  /\ ~sDone
  /\ sParagraphs' = smartSplitParagraphs(sText)
  /\ sDone' = TRUE
  /\ UNCHANGED <<sText, bookParagraphs, translatedText, paragraphs, pDone>>
  /\ UNCHANGED <<qvars, tvars, rvars, cvars, mvars>>

SplitNext == callSmartSplit

\* ---------------------------------------- smartSplitParagraphs: properties

HasDoubleBreak(s) == \E i \in 1 .. (Len(s) - 1) : s[i] = "\n" /\ s[i + 1] = "\n"
HasBreak(s) == \E i \in 1 .. Len(s) : s[i] = "\n"
HasContent(s) == \E i \in 1 .. Len(s) : ~IsSpace(s[i])

\* The text holds more than one paragraph: content on both sides of a run of
\* two or more line breaks.
SeveralParagraphs(t) ==
  \E i \in 1 .. (Len(t) - 1) :
    /\ t[i] = "\n" /\ t[i + 1] = "\n"
    /\ HasContent(SubSeq(t, 1, i - 1))
    /\ HasContent(SubSeq(t, i + 2, Len(t)))

\* The text holds more than one non-empty line.
SeveralLines(t) ==
  \E i \in 1 .. Len(t) :
    /\ t[i] = "\n"
    /\ HasContent(SubSeq(t, 1, i - 1))
    /\ HasContent(SubSeq(t, i + 1, Len(t)))

\* The text holds a sentence: a terminal mark after some other character.
HasSentence(t) ==
  \E i \in 1 .. Len(t), j \in 1 .. Len(t) :
    i < j /\ ~IsTerminal(t[i]) /\ IsTerminal(t[j])

\* The text from its first character that is no terminal mark up to its last
\* terminal mark: the sentences of a text that holds one.
SentenceSpan(t) ==
  LET first == CHOOSE i \in 1 .. Len(t) :
                 ~IsTerminal(t[i]) /\ \A h \in 1 .. (i - 1) : IsTerminal(t[h])
      last == CHOOSE j \in 1 .. Len(t) :
                IsTerminal(t[j]) /\ \A h \in (j + 1) .. Len(t) : ~IsTerminal(t[h])
  IN SubSeq(t, first, last)

\* The number of sentences a paragraph holds: its runs of terminal marks.
TerminalRuns(p) ==
  Cardinality({i \in 1 .. Len(p) :
                 IsTerminal(p[i]) /\ (i = Len(p) \/ ~IsTerminal(p[i + 1]))})

RECURSIVE SkipSpace(_, _)
\* The first position at or after i that holds no white space.
SkipSpace(t, i) == IF i <= Len(t) /\ IsSpace(t[i]) THEN SkipSpace(t, i + 1) ELSE i

\* What separates two paragraphs of a kind, and what a paragraph of that kind
\* may not hold.
Separates(kind, gap, next) ==
  CASE kind = "paragraph" -> HasDoubleBreak(gap)
    [] kind = "line" -> HasBreak(gap)
    [] kind = "group" -> gap # <<>> \/ ~IsTerminal(Head(next))
    [] OTHER -> FALSE

Unbroken(kind, p) ==
  CASE kind = "paragraph" -> ~HasDoubleBreak(p)
    [] kind = "line" -> ~HasBreak(p)
    [] kind = "group" -> IsTerminal(p[Len(p)])
    [] OTHER -> TRUE

RECURSIVE Tiles(_, _, _, _, _)
\* From position pos on, t is the paragraphs list[k], list[k + 1], ... in this
\* order, each trimmed and unbroken, with white space before, between and after
\* them, and consecutive ones separated as their kind requires.
Tiles(t, pos, list, k, kind) ==
  LET start == SkipSpace(t, pos)
  IN IF k > Len(list) THEN start > Len(t)
     ELSE /\ list[k] # <<>>
          /\ start + Len(list[k]) - 1 <= Len(t)
          /\ SubSeq(t, start, start + Len(list[k]) - 1) = list[k]
          /\ ~IsSpace(list[k][Len(list[k])])
          /\ Unbroken(kind, list[k])
          /\ (k > 1 => Separates(kind, SubSeq(t, pos, start - 1), list[k]))
          /\ Tiles(t, start + Len(list[k]), list, k + 1, kind)

\* C33: smartSplitParagraphs returns the paragraphs separated by two or more
\* line breaks when the text holds more than one, otherwise its non-empty
\* trimmed lines when it holds more than one, otherwise its sentences in
\* groups of three in source order, the last group holding one to three; no
\* paragraph returned is empty or white space only.
C33_SmartSplitFallsBackInOrder ==
  sDone =>
    /\ \A k \in 1 .. Len(sParagraphs) : HasContent(sParagraphs[k])
    /\ (SeveralParagraphs(sText) =>
          /\ Len(sParagraphs) > 1
          /\ Tiles(sText, 1, sParagraphs, 1, "paragraph"))
    /\ ((~SeveralParagraphs(sText) /\ SeveralLines(sText)) =>
          /\ Len(sParagraphs) > 1
          /\ Tiles(sText, 1, sParagraphs, 1, "line"))
    /\ ((~SeveralParagraphs(sText) /\ ~SeveralLines(sText) /\ HasSentence(sText)) =>
          /\ Tiles(SentenceSpan(sText), 1, sParagraphs, 1, "group")
          /\ \A k \in 1 .. Len(sParagraphs) :
               /\ TerminalRuns(sParagraphs[k]) \in 1 .. 3
               /\ (k < Len(sParagraphs) => TerminalRuns(sParagraphs[k]) = 3))
    /\ ((~SeveralParagraphs(sText) /\ ~SeveralLines(sText) /\ ~HasSentence(sText)) =>
          /\ Len(sParagraphs) <= 1
          /\ Tiles(sText, 1, sParagraphs, 1, "whole"))

\* Four sentences on one line were split into a group of three and a shorter
\* last group.
C33_FourSentencesGrouped ==
  /\ sDone
  /\ ~SeveralParagraphs(sText) /\ ~SeveralLines(sText)
  /\ Len(sParagraphs) = 2
  /\ TerminalRuns(sParagraphs[1]) = 3
  /\ TerminalRuns(sParagraphs[2]) = 1

\* ----------------------------------------------------------- specifications

Init == QInit /\ TIdle /\ RIdle /\ CIdle /\ BIdle

Spec == Init /\ [][QNext]_vars

InitRemote == QIdle /\ TIdle /\ RInit /\ CIdle /\ BIdle

SpecRemote == InitRemote /\ [][RNext]_vars

TNext ==
  \/ handlePlayStart
  \/ handlePlayResume
  \/ handlePlayPause
  \/ \E i \in 1 .. MaxPending, tone \in BOOLEAN : startTimerFires(i, tone)
  \/ tHandleStop
  \/ \E tone \in BOOLEAN : tHandleRepeat(tone)
  \/ \E r \in Rates : handleRate(r)
  \/ settingsChange
  \/ tUnmount
  \/ tick
  \/ intervalFires
  \/ \E tone \in BOOLEAN : tUtterEnd(tone)
  \/ tUtterError
  \/ \E i \in 1 .. MaxPending, tone \in BOOLEAN : tStaleEnd(i, tone)
  \/ \E i \in 1 .. MaxPending : tStaleError(i)

InitTimer == QIdle /\ TIdle /\ RIdle /\ CIdle /\ BIdle

InitChunk == QIdle /\ TIdle /\ RIdle /\ CInit /\ BIdle

SpecChunk == InitChunk /\ [][CNext]_vars

SpecTimer == InitTimer /\ [][TNext]_vars

\* A timer set with setTimeout fires: no start stays pending forever.
SpecTimerLive ==
  SpecTimer /\ WF_vars(\E i \in 1 .. MaxPending, tone \in BOOLEAN : startTimerFires(i, tone))

\* The queue player of a signed-in user whose saved state was read and found
\* absent, in a session whose saves all fail.
QInitSave ==
  /\ state = "idle"
  /\ selectedParagraphs = {}
  /\ currentParagraph = -1
  /\ rate = 100
  /\ playQueueRef = <<>>
  /\ queueIndexRef = 0
  /\ abortRef = FALSE
  /\ mounted = TRUE
  /\ user = TRUE
  /\ loadPending = FALSE
  /\ speechQueue = <<>>
  /\ speechPaused = FALSE
  /\ stale = [r \in Rates |-> 0]
  /\ startedLog = <<>>
  /\ lastSave = <<>>
  /\ saveOutcome \in SaveOutcomes \ {"ok"}
  /\ stored = <<>>
  /\ cleanRun = FALSE
  /\ resumed = FALSE

SNext ==
  \/ \E i \in ParaIdx : toggleParagraph(i)
  \/ clearSelection
  \/ \E r \in Rates : setRate(r)
  \/ \E clicked \in ArrayFrom(selectedParagraphs) : handlePlayAll(clicked)
  \/ \E i \in ParaIdx : handlePlaySingle(i)
  \/ handlePause
  \/ handleResume
  \/ handleStop
  \/ handleRepeat
  \/ unmount
  \/ utterEnd
  \/ utterError
  \/ \E r \in Rates : staleEnd(r)
  \/ \E r \in Rates : staleError(r)

InitSave == QInitSave /\ TIdle /\ RIdle /\ CIdle /\ BIdle

SpecSave == InitSave /\ [][SNext]_vars

InitBook == QIdle /\ TIdle /\ RIdle /\ CIdle /\ BInit

SpecBook == InitBook /\ [][BNext]_vars

InitBookmarks == QIdle /\ TIdle /\ RIdle /\ CIdle /\ BIdle

SpecBookmarks == InitBookmarks /\ [][MNext]_vars

\* The timer player opened for a book of ResumeSeconds seconds that an
\* earlier session left with a stored progress: pausedAtRef starts as
\* loadProgress(book.id).
TInitResume ==
  /\ tState = "idle"
  /\ elapsed = 0
  /\ tRate = 100
  /\ intervalRef = "null"
  /\ sinceStart = 0
  /\ estimatedSeconds = ResumeSeconds
  /\ prog \in 0 .. ResumeSeconds
  /\ pausedAtRef = prog
  /\ chunkIndexRef = 0
  /\ tMounted = TRUE
  /\ capElapsed = 0
  /\ leakedInterval = FALSE
  /\ startTimers = <<>>
  /\ tSpeech = <<>>
  /\ tSpeechPaused = FALSE
  /\ tStale = <<>>
  /\ stopped = FALSE
  /\ resumedFrom = -1

ResumeNext ==
  \/ resumeClick
  \/ handlePlayStart
  \/ handlePlayResume
  \/ handlePlayPause
  \/ \E i \in 1 .. MaxPending, tone \in BOOLEAN : startTimerFires(i, tone)
  \/ tHandleStop
  \/ tUnmount
  \/ tick
  \/ intervalFires
  \/ \E tone \in BOOLEAN : tUtterEnd(tone)
  \/ reopen

InitResume == QIdle /\ TInitResume /\ RIdle /\ CIdle /\ BIdle

SpecResume == InitResume /\ [][ResumeNext]_vars

InitSplit == QIdle /\ TIdle /\ RIdle /\ CIdle /\ BSplit

SpecSplit == InitSplit /\ [][SplitNext]_vars

JumpNext ==
  \/ handlePlayStart
  \/ handlePlayResume
  \/ handlePlayPause
  \/ \E i \in 1 .. MaxPending, tone \in BOOLEAN : startTimerFires(i, tone)
  \/ tHandleStop
  \/ tick
  \/ intervalFires
  \/ \E tone \in BOOLEAN : tUtterEnd(tone)
  \/ addBookmark
  \/ \E i \in 1 .. MaxBookmarks : jumpToBookmark(i)

InitJump == QIdle /\ TIdle /\ RIdle /\ CIdle /\ BIdle

SpecJump == InitJump /\ [][JumpNext]_vars

====
